---- MODULE Spec2Model ----
(***************************************************************************)
(* Provider-failover response pipeline of the Discord AI bot:              *)
(*   RateLimiter          src/services/rateLimiter.js                      *)
(*   ConversationManager  src/unnamed/part_000                             *)
(*   DiscordAIBot         src/unnamed/part_001                             *)
(*   GroqService          src/services/groqService.js                      *)
(*   HuggingFaceService   src/services/huggingfaceService.js               *)
(*   AdminCommands        src/commands/admin.js                            *)
(*                                                                         *)
(* Node runs every handler on one thread: a handler runs without           *)
(* interruption up to its next await, so one action is one synchronous     *)
(* stretch of a handler, and handlers of different messages interleave at  *)
(* the awaits.  Time (Date.now()) is counted in abstract units.            *)
(***************************************************************************)
EXTENDS Integers, Sequences, FiniteSets, TLC

\* ---------------------------------------------------------------- bounds
\* The values settings.json gives (read through `config`), and the length of a
\* UTC day, scaled down: time is counted in units of which DayMs make a day.
UserMax == 2
WindowMs == 1
GroqDaily == 1
MaxContextMessages == 3
ConversationTimeout == 1
DayMs == 1
\* The clock stops at MaxTime, and at most MaxAdmitted messages pass the rate
\* check (a rejected message changes nothing, so any number of them may arrive).
MaxTime == 2
MaxAdmitted == 2
\* In the runs that call the conversation store directly, a conversation takes
\* at most MaxStored addMessage calls.
MaxStored == 5
\* config.maxTokensPerRequest, scaled down like the other settings, and the
\* length of the longest list handed to a provider client called directly.
MaxTokensPerRequest == 6
MaxTurns == 3
\* In the runs that call the rate limiter directly, incrementGroq is called
\* while the counter is below MaxUnits.
MaxUnits == 2
\* The texts handed to estimateTokens directly have at most MaxText characters.
MaxText == 6

Users == {"u1", "u2"}
Slots == {"m1", "m2"}
Contents == {"hi"}

\* What promptStorage.getUserPrompt can settle with: no row, a row with an
\* empty customPrompt, a row with a prompt, or a rejection.
PromptLookups == {"none", "empty", "custom", "error"}

\* What the HTTP layer (axios) can hand back to a provider client.
HttpOutcomes ==
    {"200", "badformat", "401", "403", "404", "429", "500", "502", "503", "timeout", "network"}

VARIABLES
    now,            \* Date.now()
    userLimits,     \* RateLimiter.userLimits: a Map userId -> {count, resetTime, firstRequest}
    groqRequests,   \* RateLimiter.groqRequests
    groqResetTime,  \* RateLimiter.groqResetTime
    timerAt,        \* the time the pending setTimeout of scheduleGroqReset is due
    conversations,  \* ConversationManager.conversations: a Map userId -> {messages, lastActivity, messageCount}
    currentModel,   \* DiscordAIBot.currentModel
    msg,            \* the handler of each message in flight: its position and what it did so far
    admittedCount,  \* number of messages that passed the rate check so far
    lastCall        \* the last direct call of a component's method, and what it returned

vars == <<now, userLimits, groqRequests, groqResetTime, timerAt, conversations,
          currentModel, msg, admittedCount, lastCall>>

\* ------------------------------------------------------------ Map helpers
MapSet(f, k, v) == [x \in DOMAIN f \cup {k} |-> IF x = k THEN v ELSE f[x]]
MapDelete(f, k) == [x \in DOMAIN f \ {k} |-> f[x]]
EmptyMap == [x \in {} |-> 0]

\* ------------------------------------------------------------ RateLimiter
NewWindow(t) == [count |-> 1, resetTime |-> t + WindowMs, firstRequest |-> t]

\* faulty variant: the limit test is <= instead of <
CheckUserLimitInclusive(limits, userId, t) ==
    IF userId \notin DOMAIN limits
    THEN [limits |-> MapSet(limits, userId, NewWindow(t)), admitted |-> TRUE]
    ELSE IF t > limits[userId].resetTime
    THEN [limits |-> MapSet(limits, userId, NewWindow(t)), admitted |-> TRUE]
    ELSE IF limits[userId].count <= UserMax
    THEN [limits |-> [limits EXCEPT ![userId].count = @ + 1], admitted |-> TRUE]
    ELSE [limits |-> limits, admitted |-> FALSE]

\* faulty variant: the window test is >= instead of >
CheckUserLimitWindowInclusive(limits, userId, t) ==
    IF userId \notin DOMAIN limits
    THEN [limits |-> MapSet(limits, userId, NewWindow(t)), admitted |-> TRUE]
    ELSE IF t >= limits[userId].resetTime
    THEN [limits |-> MapSet(limits, userId, NewWindow(t)), admitted |-> TRUE]
    ELSE IF limits[userId].count < UserMax
    THEN [limits |-> [limits EXCEPT ![userId].count = @ + 1], admitted |-> TRUE]
    ELSE [limits |-> limits, admitted |-> FALSE]

\* faulty variant: a new window starts at count 0, not counting the request that opens it
CheckUserLimitResetsToZero(limits, userId, t) ==
    IF userId \notin DOMAIN limits
    THEN [limits |-> MapSet(limits, userId, NewWindow(t)), admitted |-> TRUE]
    ELSE IF t > limits[userId].resetTime
    THEN [limits |-> MapSet(limits, userId, [NewWindow(t) EXCEPT !.count = 0]),
          admitted |-> TRUE]
    ELSE IF limits[userId].count < UserMax
    THEN [limits |-> [limits EXCEPT ![userId].count = @ + 1], admitted |-> TRUE]
    ELSE [limits |-> limits, admitted |-> FALSE]

\* faulty variant: a rejected request starts the window over
CheckUserLimitRejectExtends(limits, userId, t) ==
    IF userId \notin DOMAIN limits
    THEN [limits |-> MapSet(limits, userId, NewWindow(t)), admitted |-> TRUE]
    ELSE IF t > limits[userId].resetTime
    THEN [limits |-> MapSet(limits, userId, NewWindow(t)), admitted |-> TRUE]
    ELSE IF limits[userId].count < UserMax
    THEN [limits |-> [limits EXCEPT ![userId].count = @ + 1], admitted |-> TRUE]
    ELSE [limits |-> [limits EXCEPT ![userId].resetTime = t + WindowMs],
          admitted |-> FALSE]

CheckUserLimit(limits, userId, t) ==
    IF userId \notin DOMAIN limits
    THEN [limits |-> MapSet(limits, userId, NewWindow(t)), admitted |-> TRUE]
    ELSE IF t > limits[userId].resetTime
    THEN [limits |-> MapSet(limits, userId, NewWindow(t)), admitted |-> TRUE]
    ELSE IF limits[userId].count < UserMax
    THEN [limits |-> [limits EXCEPT ![userId].count = @ + 1], admitted |-> TRUE]
    ELSE [limits |-> limits, admitted |-> FALSE]

\* faulty variant: midnight itself counts as the next midnight
GetNextResetTimeCeiling(t) == ((t + DayMs - 1) \div DayMs) * DayMs

\* next UTC midnight strictly after t
GetNextResetTime(t) == ((t \div DayMs) + 1) * DayMs

\* faulty variant: a check that finds capacity takes the unit at once
CheckGroqLimitConsumes(requests, resetTime, t) ==
    LET reset == t > resetTime
        req   == IF reset THEN 0 ELSE requests
    IN  [groqRequests  |-> IF req < GroqDaily THEN req + 1 ELSE req,
         groqResetTime |-> IF reset THEN GetNextResetTime(t) ELSE resetTime,
         hasCapacity   |-> req < GroqDaily]

CheckGroqLimit(requests, resetTime, t) ==
    LET reset == t > resetTime
        req   == IF reset THEN 0 ELSE requests
    IN  [groqRequests  |-> req,
         groqResetTime |-> IF reset THEN GetNextResetTime(t) ELSE resetTime,
         hasCapacity   |-> req < GroqDaily]

\* faulty variant: the successful call is not counted
IncrementGroqForgotten(requests) == requests

IncrementGroq(requests) == requests + 1

\* faulty variant: the sweep removes every rate state, whatever its age
CleanupUserLimitsAnyAge(limits, t) == EmptyMap

CleanupUserLimits(limits, t) ==
    [u \in {x \in DOMAIN limits : ~(t - limits[x].firstRequest > DayMs)} |-> limits[u]]

\* resetUserLimit(userId): the map afterwards and the value returned
ResetUserLimit(limits, userId) ==
    [userLimits |-> MapDelete(limits, userId), hadLimit |-> userId \in DOMAIN limits]

\* faulty variant: the count is read after it was set to 0
ResetGroqLimitReadsLate(requests) == [groqRequests |-> 0, oldCount |-> 0]

\* resetGroqLimit()
ResetGroqLimit(requests) == [groqRequests |-> 0, oldCount |-> requests]

\* resetAllLimits()
ResetAllLimits(limits, requests) ==
    [userLimits |-> EmptyMap, groqRequests |-> 0,
     userCount |-> Cardinality(DOMAIN limits), groqCount |-> requests]

\* ---------------------------------------------------- ConversationManager
\* faulty variant: the expiry test is >= instead of >
GetContextExpiresEarly(convs, userId, t) ==
    IF userId \notin DOMAIN convs
    THEN [conversations |-> convs, context |-> <<>>]
    ELSE IF t - convs[userId].lastActivity >= ConversationTimeout
    THEN [conversations |-> MapDelete(convs, userId), context |-> <<>>]
    ELSE [conversations |-> [convs EXCEPT ![userId].lastActivity = t],
          context |-> convs[userId].messages]

\* faulty variant: an expired conversation is reported empty but not deleted
GetContextKeepsExpired(convs, userId, t) ==
    IF userId \notin DOMAIN convs
    THEN [conversations |-> convs, context |-> <<>>]
    ELSE IF t - convs[userId].lastActivity > ConversationTimeout
    THEN [conversations |-> convs, context |-> <<>>]
    ELSE [conversations |-> [convs EXCEPT ![userId].lastActivity = t],
          context |-> convs[userId].messages]

GetContext(convs, userId, t) ==
    IF userId \notin DOMAIN convs
    THEN [conversations |-> convs, context |-> <<>>]
    ELSE IF t - convs[userId].lastActivity > ConversationTimeout
    THEN [conversations |-> MapDelete(convs, userId), context |-> <<>>]
    ELSE [conversations |-> [convs EXCEPT ![userId].lastActivity = t],
          context |-> convs[userId].messages]

IsSystem(m) == m.role = "system"
IsNotSystem(m) == m.role # "system"

\* Array.prototype.slice(-n): the last n elements; slice(-0) is slice(0), the
\* whole array, and a negative keepCount makes slice(k) drop the first k.
SliceFromEnd(s, keepCount) ==
    IF keepCount > 0
    THEN SubSeq(s, (IF Len(s) > keepCount THEN Len(s) - keepCount + 1 ELSE 1), Len(s))
    ELSE SubSeq(s, (0 - keepCount) + 1, Len(s))

TrimMessages(messages) ==
    IF Len(messages) > MaxContextMessages
    THEN LET systemMessages == SelectSeq(messages, IsSystem)
             otherMessages  == SelectSeq(messages, IsNotSystem)
             keepCount      == MaxContextMessages - Len(systemMessages)
         IN  systemMessages \o SliceFromEnd(otherMessages, keepCount)
    ELSE messages

\* faulty variant: the new turn is put at the front of the list
AddMessagePrepends(convs, userId, role, content, t) ==
    LET conversation == IF userId \in DOMAIN convs
                        THEN convs[userId]
                        ELSE [messages |-> <<>>, lastActivity |-> t, messageCount |-> 0]
        pushed == <<[role |-> role, content |-> content]>> \o conversation.messages
    IN  MapSet(convs, userId,
               [messages     |-> TrimMessages(pushed),
                lastActivity |-> t,
                messageCount |-> conversation.messageCount + 1])

AddMessage(convs, userId, role, content, t) ==
    LET conversation == IF userId \in DOMAIN convs
                        THEN convs[userId]
                        ELSE [messages |-> <<>>, lastActivity |-> t, messageCount |-> 0]
        pushed == Append(conversation.messages, [role |-> role, content |-> content])
    IN  MapSet(convs, userId,
               [messages     |-> TrimMessages(pushed),
                lastActivity |-> t,
                messageCount |-> conversation.messageCount + 1])

\* faulty variant: conversations.clear() in the place of conversations.delete(userId)
ClearContextClearsAll(convs, userId) == IF userId \in DOMAIN convs THEN EmptyMap ELSE convs

ClearContext(convs, userId) == MapDelete(convs, userId)
\* the boolean clearContext returns
ClearContextResult(convs, userId) == userId \in DOMAIN convs

CleanupOldConversations(convs, t) ==
    [u \in {x \in DOMAIN convs : ~(t - convs[x].lastActivity > ConversationTimeout)} |-> convs[u]]

\* ------------------------------------------------------------ TokenCounter
\* A text is the sequence of its characters.
AvgCharsPerToken == 4
\* countTokens: the tokens added for each message's role and formatting
MessageOverhead == 3

\* this.specialTokens, in the order Object.entries walks them; each counts 1
BeginOfText == <<"<", "|", "b", "e", "g", "i", "n", "_", "o", "f", "_", "t", "e", "x", "t", "|", ">">>
StartHeaderId == <<"<", "|", "s", "t", "a", "r", "t", "_", "h", "e", "a", "d", "e", "r", "_", "i", "d", "|", ">">>
EndHeaderId == <<"<", "|", "e", "n", "d", "_", "h", "e", "a", "d", "e", "r", "_", "i", "d", "|", ">">>
EotId == <<"<", "|", "e", "o", "t", "_", "i", "d", "|", ">">>
SystemWord == <<"s", "y", "s", "t", "e", "m">>
UserWord == <<"u", "s", "e", "r">>
AssistantWord == <<"a", "s", "s", "i", "s", "t", "a", "n", "t">>
SpecialTokens == <<BeginOfText, StartHeaderId, EndHeaderId, EotId, SystemWord, UserWord, AssistantWord>>

\* text has token at position i
MatchesAt(text, token, i) ==
    /\ i + Len(token) - 1 <= Len(text)
    /\ SubSeq(text, i, i + Len(token) - 1) = token

RECURSIVE CountMatches(_, _, _)
\* text.match(regex).length for the global regex of one token: the matches
\* found from position i on, left to right, none overlapping another
CountMatches(text, token, i) ==
    IF i > Len(text) THEN 0
    ELSE IF MatchesAt(text, token, i)
         THEN 1 + CountMatches(text, token, i + Len(token))
         ELSE CountMatches(text, token, i + 1)

RECURSIVE RemoveMatches(_, _, _)
\* text.replace(regex, '') for the same regex
RemoveMatches(text, token, i) ==
    IF i > Len(text) THEN <<>>
    ELSE IF MatchesAt(text, token, i)
         THEN RemoveMatches(text, token, i + Len(token))
         ELSE <<text[i]>> \o RemoveMatches(text, token, i + 1)

RECURSIVE SpecialTokenCount(_, _)
\* the matches are counted in the text as given, token k and the ones after it
SpecialTokenCount(text, k) ==
    IF k > Len(SpecialTokens) THEN 0
    ELSE CountMatches(text, SpecialTokens[k], 1) + SpecialTokenCount(text, k + 1)

RECURSIVE CleanText(_, _)
\* and removed from cleanText one token after the other
CleanText(clean, k) ==
    IF k > Len(SpecialTokens) THEN clean
    ELSE CleanText(RemoveMatches(clean, SpecialTokens[k], 1), k + 1)

\* Math.ceil(a / b) for a >= 0, b > 0
Ceil(a, b) == (a + b - 1) \div b

\* TokenCounter.estimateTokens
EstimateTokens(text) ==
    IF text = <<>> THEN 0
    ELSE SpecialTokenCount(text, 1) + Ceil(Len(CleanText(text, 1)), AvgCharsPerToken)

RECURSIVE CountTokens(_)
\* TokenCounter.countTokens of a list of messages: a message without content
\* counts nothing, not even the overhead
CountTokens(messages) ==
    IF messages = <<>> THEN 0
    ELSE (IF Head(messages).content = <<>> THEN 0
          ELSE EstimateTokens(Head(messages).content) + MessageOverhead)
         + CountTokens(Tail(messages))

\* ------------------------------------------------------- provider clients
RECURSIVE GroqTrimmedConversation(_, _, _)
\* GroqService.trimContext, the loop of lines 103-114: from the last message
\* back, a message is kept while the tokens so far and its own stay within
\* maxTokensPerRequest * 0.7; the first one that does not fit ends the loop.
GroqTrimmedConversation(conversationMessages, i, totalTokens) ==
    IF i < 1 THEN <<>>
    ELSE LET messageTokens == CountTokens(<<conversationMessages[i]>>)
         IN  IF 10 * (totalTokens + messageTokens) <= 7 * MaxTokensPerRequest
             THEN GroqTrimmedConversation(conversationMessages, i - 1,
                                          totalTokens + messageTokens)
                    \o <<conversationMessages[i]>>
             ELSE <<>>

\* GroqService.trimContext
GroqTrimContext(messages) ==
    LET systemMessages       == SelectSeq(messages, IsSystem)
        conversationMessages == SelectSeq(messages, IsNotSystem)
    IN  systemMessages
          \o GroqTrimmedConversation(conversationMessages, Len(conversationMessages),
                                     CountTokens(systemMessages))

RECURSIVE ContentLength(_)
\* systemMessages.reduce((acc, m) => acc + m.content.length, 0)
ContentLength(messages) ==
    IF messages = <<>> THEN 0
    ELSE Len(Head(messages).content) + ContentLength(Tail(messages))

RECURSIVE HuggingFaceTrimmedConversationSkips(_, _, _)
\* faulty variant: a message that does not fit is skipped (continue) and older
\* ones are still taken, where the code ends the loop (break)
HuggingFaceTrimmedConversationSkips(conversationMessages, i, totalLength) ==
    IF i < 1 THEN <<>>
    ELSE LET length == Len(conversationMessages[i].content)
         IN  IF totalLength + length <= MaxTokensPerRequest * 3
             THEN HuggingFaceTrimmedConversationSkips(conversationMessages, i - 1,
                                                      totalLength + length)
                    \o <<conversationMessages[i]>>
             ELSE HuggingFaceTrimmedConversationSkips(conversationMessages, i - 1,
                                                      totalLength)

RECURSIVE HuggingFaceTrimmedConversation(_, _, _)
\* HuggingFaceService.trimContext, the loop of lines 160-170: the same walk,
\* counting characters against maxTokensPerRequest * 3.
HuggingFaceTrimmedConversation(conversationMessages, i, totalLength) ==
    IF i < 1 THEN <<>>
    ELSE LET length == Len(conversationMessages[i].content)
         IN  IF totalLength + length <= MaxTokensPerRequest * 3
             THEN HuggingFaceTrimmedConversation(conversationMessages, i - 1,
                                                 totalLength + length)
                    \o <<conversationMessages[i]>>
             ELSE <<>>

\* HuggingFaceService.trimContext
HuggingFaceTrimContext(messages) ==
    LET systemMessages       == SelectSeq(messages, IsSystem)
        conversationMessages == SelectSeq(messages, IsNotSystem)
    IN  systemMessages
          \o HuggingFaceTrimmedConversation(conversationMessages,
                                            Len(conversationMessages),
                                            ContentLength(systemMessages))

\* axios rejected with error.response set: the server answered outside 2xx
HasResponse(http) == http \notin {"200", "badformat", "timeout", "network"}

\* error.response.status
StatusOf(http) ==
    CASE http = "401" -> 401
      [] http = "403" -> 403
      [] http = "404" -> 404
      [] http = "429" -> 429
      [] http = "500" -> 500
      [] http = "502" -> 502
      [] http = "503" -> 503
      [] OTHER        -> 0

\* the Error a client throws: its message, the status the message carries,
\* and for an error passed on unchanged what it was
Thrown(message, status, cause) == [message |-> message, status |-> status, cause |-> cause]

\* GroqService.generateResponse, the catch block (lines 65-91).  An error that
\* has no response and is not a timeout is thrown on as it is: a network
\* error, or the Error of line 62 for a body without choices.
GroqError(http) ==
    IF HasResponse(http)
    THEN LET status == StatusOf(http)
         IN  IF status = 429 THEN Thrown("Rate limit exceeded", 0, "none")
             ELSE IF status = 401 THEN Thrown("Authentication failed", 0, "none")
             ELSE IF status >= 500 THEN Thrown("Server error", 0, "none")
             ELSE Thrown("API error", status, "none")
    ELSE IF http = "timeout" THEN Thrown("Request timeout", 0, "none")
    ELSE IF http = "badformat" THEN Thrown("Invalid response format", 0, "badformat")
    ELSE Thrown("network", 0, "network")

\* faulty variant: the test for a server error comes before the test for 503
HuggingFaceErrorServerFirst(http) ==
    IF HasResponse(http)
    THEN LET status == StatusOf(http)
         IN  IF status = 429 THEN Thrown("Rate limit exceeded", 0, "none")
             ELSE IF status = 401 THEN Thrown("Authentication failed", 0, "none")
             ELSE IF status >= 500 THEN Thrown("Server error", 0, "none")
             ELSE IF status = 503 THEN Thrown("Model loading", 0, "none")
             ELSE Thrown("API error", status, "none")
    ELSE IF http = "timeout" THEN Thrown("Request timeout", 0, "none")
    ELSE IF http = "badformat" THEN Thrown("Invalid response format", 0, "badformat")
    ELSE Thrown("network", 0, "network")

\* HuggingFaceService.generateResponse, the catch block (lines 85-114)
HuggingFaceError(http) ==
    IF HasResponse(http)
    THEN LET status == StatusOf(http)
         IN  IF status = 429 THEN Thrown("Rate limit exceeded", 0, "none")
             ELSE IF status = 401 THEN Thrown("Authentication failed", 0, "none")
             ELSE IF status = 503 THEN Thrown("Model loading", 0, "none")
             ELSE IF status >= 500 THEN Thrown("Server error", 0, "none")
             ELSE Thrown("API error", status, "none")
    ELSE IF http = "timeout" THEN Thrown("Request timeout", 0, "none")
    ELSE IF http = "badformat" THEN Thrown("Invalid response format", 0, "badformat")
    ELSE Thrown("network", 0, "network")

\* GroqService.generateResponse: a reply, or the Error it throws.
GroqResult(http) ==
    IF http = "200"
    THEN [ok |-> TRUE,  content |-> "groq reply", error |-> "none"]
    ELSE [ok |-> FALSE, content |-> "", error |-> GroqError(http).message]

\* the '\n' that ends every role header
Newline == <<"\n">>

\* the word of a role in a header
RoleWord(role) ==
    IF role = "system" THEN SystemWord
    ELSE IF role = "user" THEN UserWord
    ELSE AssistantWord

\* <|start_header_id|>role<|end_header_id|>\n
RoleHeader(role) == StartHeaderId \o RoleWord(role) \o EndHeaderId \o Newline

RECURSIVE MessagesToPrompt(_)
\* HuggingFaceService.messagesToPrompt: the begin marker is written in front of
\* each system message, and the open assistant header ends the prompt
MessagesToPrompt(messages) ==
    IF messages = <<>> THEN RoleHeader("assistant")
    ELSE LET message == Head(messages)
         IN  (IF message.role = "system" THEN BeginOfText ELSE <<>>)
               \o RoleHeader(message.role) \o message.content \o EotId
               \o MessagesToPrompt(Tail(messages))

\* HuggingFaceService.generateResponse
HuggingFaceResult(http) ==
    IF http = "200"
    THEN [ok |-> TRUE,  content |-> "hf reply", error |-> "none"]
    ELSE [ok |-> FALSE, content |-> "", error |-> HuggingFaceError(http).message]

\* ------------------------------------------------------------ DiscordAIBot
\* A handler that is not running.
IdleMsg ==
    [pc |-> "idle", user |-> "none", content |-> "none", outcome |-> "none",
     response |-> "none", rateCalls |-> 0, ctxReads |-> 0,
     primaryCalls |-> 0, primaryResult |-> "none",
     fallbackCalls |-> 0, fallbackResult |-> "none", groqUnits |-> 0,
     storeEffect |-> "none", reply |-> "none", errorsAdded |-> 0,
     systemPrompt |-> "none", label |-> "none",
     \* the array getContext returned: its elements as they are now, whether it is
     \* still the messages array of the user's conversation, and the elements it
     \* had when getContext returned it
     context |-> <<>>, live |-> FALSE, fetched |-> <<>>,
     \* the messages getAIResponse built and passes to the providers
     sent |-> <<>>]

\* handleMessage line 181, handleChatCommand line 369: the model indicator of a
\* reply is chosen by the selection as it is when the reply is sent
ModelLabel(model) == IF model = "groq" THEN "groq" ELSE "huggingface"

\* faulty variant: the quota check is left out of the condition
PrimaryEligibleIgnoresQuota(model, hasCapacity) == model = "groq"

\* DiscordAIBot.getAIResponse, line 247: the primary provider is tried when
\* it is the selected one and the daily quota has capacity.
PrimaryEligible(model, hasCapacity) == model = "groq" /\ hasCapacity

\* faulty variant: the reply is stored before the message it answers
PersistAssistantFirst(convs, userId, content, reply, t) ==
    AddMessage(AddMessage(convs, userId, "assistant", reply, t),
               userId, "user", content, t)

\* faulty variant: the exchange is written over what the store holds
PersistReplacesStored(convs, userId, content, reply, t) ==
    MapSet(convs, userId,
           [messages     |-> <<[role |-> "user", content |-> content],
                               [role |-> "assistant", content |-> reply]>>,
            lastActivity |-> t,
            messageCount |-> (IF userId \in DOMAIN convs
                              THEN convs[userId].messageCount ELSE 0) + 2])

\* handleMessage, lines 175-179: the two turns of a successful exchange.
Persist(convs, userId, content, reply, t) ==
    AddMessage(AddMessage(convs, userId, "user", content, t),
               userId, "assistant", reply, t)

\* faulty variant: the return after the rate-limited notice is missing
AfterRateCheckNoReturn(admitted) == "typing"

\* handleMessage, lines 161-167: a rejected message returns after the notice.
AfterRateCheck(admitted) == IF admitted THEN "typing" ELSE "done"

\* faulty variant: getContext hands out a copy of the stored messages
SeenPersistCopies(ms, convs, userId, content, reply) == ms

\* The arrays handed out by getContext are the stored arrays themselves
\* (part_000:32 returns conversation.messages): the two push calls of a
\* successful exchange show in every array that is still the stored one.  The
\* trim of addMessage assigns a new array to conversation.messages (line 62),
\* after the push; from then on the array handed out no longer changes.
SeenPersist(ms, convs, userId, content, reply) ==
    LET old    == IF userId \in DOMAIN convs THEN convs[userId].messages ELSE <<>>
        first  == [role |-> "user", content |-> content]
        second == [role |-> "assistant", content |-> reply]
        after1 == TrimMessages(Append(old, first))
    IN  [k \in Slots |->
           IF ms[k].live /\ ms[k].user = userId
           THEN IF Len(old) + 1 > MaxContextMessages
                THEN [ms[k] EXCEPT !.context = Append(@, first), !.live = FALSE]
                ELSE [ms[k] EXCEPT !.context = Append(Append(@, first), second),
                                   !.live = ~(Len(after1) + 1 > MaxContextMessages)]
           ELSE ms[k]]

\* conversations.delete(userId) / conversations.clear(): the arrays handed out
\* for these users stay as they are and are no longer the stored ones.
Detached(ms, users) ==
    [k \in Slots |-> IF ms[k].user \in users THEN [ms[k] EXCEPT !.live = FALSE] ELSE ms[k]]

\* What one call of getContext did to the store, as the handler's record of it.
StoreEffect(before, after, userId) ==
    IF after = before THEN "none"
    ELSE IF userId \notin DOMAIN after THEN "evicted"
    ELSE IF /\ userId \in DOMAIN before
            /\ after[userId].messages = before[userId].messages
            /\ after[userId].messageCount = before[userId].messageCount
         THEN "refreshed"
         ELSE "altered"

\* the free handler with the least name takes the next message
FirstIdle(m) == /\ msg[m].pc = "idle"
                /\ \A k \in Slots : msg[k].pc = "idle" => (m = "m1" \/ k # "m1")

\* A finished handler returns before anything else runs: Return only clears
\* the handler's record, so taking it first loses no behaviour of the program.
NoneDone == \A k \in Slots : msg[k].pc # "done"

NoCall == [op |-> "none", user |-> "none", result |-> FALSE, n |-> 0]

Init ==
    /\ now = 0
    /\ userLimits = EmptyMap
    /\ groqRequests = 0
    /\ groqResetTime = GetNextResetTime(0)
    /\ timerAt = GetNextResetTime(0)
    /\ conversations = EmptyMap
    /\ currentModel = "groq"
    /\ msg = [m \in Slots |-> IdleMsg]
    /\ admittedCount = 0
    /\ lastCall = NoCall

Tick ==
    /\ NoneDone
    /\ now < MaxTime
    /\ now' = now + 1
    /\ UNCHANGED <<userLimits, groqRequests, groqResetTime, timerAt, conversations,
                   currentModel, msg, admittedCount, lastCall>>

\* handleMessage / handleChatCommand up to the first await: the rate check.
HandleMessage(m, userId, content) ==
    /\ NoneDone
    /\ FirstIdle(m)
    /\ LET r == CheckUserLimit(userLimits, userId, now)
           next == AfterRateCheck(r.admitted)
       IN  /\ r.admitted => admittedCount < MaxAdmitted
           \* users are interchangeable: the first admitted message is u1's
           /\ admittedCount = 0 => userId = "u1"
           /\ admittedCount' = IF r.admitted THEN admittedCount + 1 ELSE admittedCount
           /\ userLimits' = r.limits
           /\ msg' = [msg EXCEPT ![m] =
                        [IdleMsg EXCEPT !.pc = next, !.user = userId, !.content = content,
                                        !.rateCalls = 1,
                                        !.outcome = IF r.admitted THEN "none" ELSE "rate_limited",
                                        !.reply = IF r.admitted THEN "none" ELSE "rate_notice"]]
    /\ UNCHANGED <<now, groqRequests, groqResetTime, timerAt, conversations, currentModel,
                   lastCall>>

\* sendTyping / deferReply resolved: getContext, then getAIResponse starts the
\* prompt lookup.
TypingResolved(m) ==
    /\ NoneDone
    /\ msg[m].pc = "typing"
    /\ LET g == GetContext(conversations, msg[m].user, now)
           evicted == DOMAIN conversations \ DOMAIN g.conversations
       IN  /\ conversations' = g.conversations
           /\ msg' = [Detached(msg, evicted) EXCEPT
                        ![m].pc = "prompt", ![m].ctxReads = @ + 1,
                        ![m].storeEffect = StoreEffect(conversations, g.conversations,
                                                       msg[m].user),
                        ![m].context = g.context, ![m].fetched = g.context,
                        ![m].live = msg[m].user \in DOMAIN g.conversations]
    /\ UNCHANGED <<now, userLimits, groqRequests, groqResetTime, timerAt, currentModel, admittedCount, lastCall>>

\* sendTyping / deferReply rejected: the catch block reports an error.
TypingRejected(m) ==
    /\ NoneDone
    /\ msg[m].pc = "typing"
    /\ msg' = [msg EXCEPT ![m].pc = "done", ![m].outcome = "error",
                          ![m].errorsAdded = @ + 1, ![m].reply = "error_notice"]
    /\ UNCHANGED <<now, userLimits, groqRequests, groqResetTime, timerAt, conversations,
                   currentModel, admittedCount, lastCall>>

\* faulty variant: the row is tested, its customPrompt is not
ResolveSystemPromptKeepsEmpty(lookup) ==
    CASE lookup = "custom" -> "custom prompt"
      [] lookup = "empty"  -> ""
      [] OTHER             -> "default prompt"

\* getAIResponse, lines 229-237: config.systemPrompt unless the lookup gave a
\* row with a non-empty customPrompt; a rejected lookup is only logged.
ResolveSystemPrompt(lookup) ==
    IF lookup = "custom" THEN "custom prompt" ELSE "default prompt"

\* getAIResponse, lines 240-244
BuildMessages(systemPrompt, context, content) ==
    <<[role |-> "system", content |-> systemPrompt]>> \o context
        \o <<[role |-> "user", content |-> content]>>

\* getUserPrompt settled (a value or an error, both continue): choose the provider.
\* checkGroqLimit is evaluated only when currentModel is 'groq' (&& short-circuits).
PromptResolved(m, lookup) ==
    /\ NoneDone
    /\ msg[m].pc = "prompt"
    /\ LET g == IF currentModel = "groq"
                THEN CheckGroqLimit(groqRequests, groqResetTime, now)
                ELSE [groqRequests |-> groqRequests, groqResetTime |-> groqResetTime,
                      hasCapacity |-> FALSE]
           \* [system, ...context, user]: the spread reads the array now
           messages == BuildMessages(ResolveSystemPrompt(lookup), msg[m].context,
                                     msg[m].content)
       IN  /\ groqRequests' = g.groqRequests
           /\ groqResetTime' = g.groqResetTime
           /\ IF PrimaryEligible(currentModel, g.hasCapacity)
              THEN /\ msg' = [msg EXCEPT ![m].pc = "primary", ![m].primaryCalls = @ + 1,
                                         ![m].systemPrompt = ResolveSystemPrompt(lookup),
                                         ![m].sent = messages, ![m].context = <<>>,
                                         ![m].fetched = <<>>, ![m].live = FALSE]
                   /\ UNCHANGED currentModel
              ELSE /\ msg' = [msg EXCEPT ![m].pc = "fallback", ![m].primaryResult = "skipped",
                                         ![m].fallbackCalls = @ + 1,
                                         ![m].systemPrompt = ResolveSystemPrompt(lookup),
                                         ![m].sent = messages, ![m].context = <<>>,
                                         ![m].fetched = <<>>, ![m].live = FALSE]
                   /\ currentModel' = "huggingface"
    /\ UNCHANGED <<now, userLimits, timerAt, conversations, admittedCount, lastCall>>

\* faulty variant: a failed primary call is repeated instead of falling back
PrimaryResolvedRetries(m, http) ==
    /\ NoneDone
    /\ msg[m].pc = "primary"
    /\ LET r == GroqResult(http)
       IN  IF r.ok
           THEN /\ groqRequests' = IncrementGroq(groqRequests)
                /\ conversations' = Persist(conversations, msg[m].user, msg[m].content,
                                            r.content, now)
                /\ msg' = [SeenPersist(msg, conversations, msg[m].user, msg[m].content,
                                        r.content)
                          EXCEPT ![m].pc = "done", ![m].outcome = "success",
                                      ![m].response = r.content,
                                      ![m].primaryResult = "ok", ![m].groqUnits = @ + 1,
                                      ![m].reply = "answer"]
           ELSE /\ msg[m].primaryCalls < 2
                /\ msg' = [msg EXCEPT ![m].primaryResult = "failed",
                                      ![m].primaryCalls = @ + 1]
                /\ UNCHANGED <<groqRequests, conversations>>
    /\ UNCHANGED <<now, userLimits, groqResetTime, timerAt, currentModel, admittedCount,
                   lastCall>>

\* faulty variant: the return after a primary success is missing: the code runs on
\* into the fallback call
PrimaryResolvedFallsThrough(m, http) ==
    /\ NoneDone
    /\ msg[m].pc = "primary"
    /\ LET r == GroqResult(http)
       IN  /\ groqRequests' = IF r.ok THEN IncrementGroq(groqRequests) ELSE groqRequests
           /\ msg' = [msg EXCEPT ![m].pc = "fallback",
                                 ![m].primaryResult = IF r.ok THEN "ok" ELSE "failed",
                                 ![m].groqUnits = IF r.ok THEN @ + 1 ELSE @,
                                 ![m].fallbackCalls = @ + 1]
    /\ currentModel' = "huggingface"
    /\ UNCHANGED <<now, userLimits, groqResetTime, timerAt, conversations, admittedCount,
                   lastCall>>

\* groqService.generateResponse settled.
PrimaryResolved(m, http) ==
    /\ NoneDone
    /\ msg[m].pc = "primary"
    /\ LET r == GroqResult(http)
       IN  IF r.ok
           THEN /\ groqRequests' = IncrementGroq(groqRequests)
                /\ conversations' = Persist(conversations, msg[m].user, msg[m].content,
                                            r.content, now)
                /\ msg' = [SeenPersist(msg, conversations, msg[m].user, msg[m].content,
                                        r.content)
                          EXCEPT ![m].pc = "done", ![m].outcome = "success",
                                      ![m].response = r.content,
                                      ![m].primaryResult = "ok", ![m].groqUnits = @ + 1,
                                      ![m].reply = "answer",
                                      ![m].label = ModelLabel(currentModel)]
                /\ UNCHANGED currentModel
           ELSE /\ currentModel' = "huggingface"
                /\ msg' = [msg EXCEPT ![m].pc = "fallback", ![m].primaryResult = "failed",
                                      ![m].fallbackCalls = @ + 1]
                /\ UNCHANGED <<groqRequests, conversations>>
    /\ UNCHANGED <<now, userLimits, groqResetTime, timerAt, admittedCount, lastCall>>

\* faulty variant: a failed fallback call is repeated once before giving up
FallbackResolvedRetries(m, http) ==
    /\ NoneDone
    /\ msg[m].pc = "fallback"
    /\ LET r == HuggingFaceResult(http)
       IN  IF r.ok
           THEN /\ conversations' = Persist(conversations, msg[m].user, msg[m].content,
                                            r.content, now)
                /\ msg' = [SeenPersist(msg, conversations, msg[m].user, msg[m].content,
                                        r.content)
                          EXCEPT ![m].pc = "done", ![m].outcome = "success",
                                      ![m].response = r.content,
                                      ![m].fallbackResult = "ok", ![m].reply = "answer"]
           ELSE IF msg[m].fallbackCalls < 2
           THEN /\ msg' = [msg EXCEPT ![m].fallbackCalls = @ + 1]
                /\ UNCHANGED conversations
           ELSE /\ msg' = [msg EXCEPT ![m].pc = "failreply", ![m].outcome = "failed",
                                      ![m].fallbackResult = "failed",
                                      ![m].reply = "try_later"]
                /\ UNCHANGED conversations
    /\ UNCHANGED <<now, userLimits, groqRequests, groqResetTime, timerAt, currentModel, admittedCount, lastCall>>

\* huggingfaceService.generateResponse settled.
FallbackResolved(m, http) ==
    /\ NoneDone
    /\ msg[m].pc = "fallback"
    /\ LET r == HuggingFaceResult(http)
       IN  IF r.ok
           THEN /\ conversations' = Persist(conversations, msg[m].user, msg[m].content,
                                            r.content, now)
                /\ msg' = [SeenPersist(msg, conversations, msg[m].user, msg[m].content,
                                        r.content)
                          EXCEPT ![m].pc = "done", ![m].outcome = "success",
                                      ![m].response = r.content,
                                      ![m].fallbackResult = "ok", ![m].reply = "answer",
                                      ![m].label = ModelLabel(currentModel)]
           ELSE /\ msg' = [msg EXCEPT ![m].pc = "failreply", ![m].outcome = "failed",
                                      ![m].fallbackResult = "failed",
                                      ![m].reply = "try_later"]
                /\ UNCHANGED conversations
    /\ UNCHANGED <<now, userLimits, groqRequests, groqResetTime, timerAt, currentModel, admittedCount, lastCall>>

\* faulty variant: the metric is counted before the reply is awaited, so a
\* rejected reply counts the message a second time in the catch block
FailReplyRejectedCountsTwice(m) ==
    /\ NoneDone
    /\ msg[m].pc = "failreply"
    /\ msg' = [msg EXCEPT ![m].pc = "done", ![m].outcome = "error",
                          ![m].errorsAdded = @ + 2]
    /\ UNCHANGED <<now, userLimits, groqRequests, groqResetTime, timerAt, conversations,
                   currentModel, admittedCount, lastCall>>

\* getAIResponse returned null and the try-again-later reply was delivered:
\* stats.errors++ (handleMessage line 185, handleChatCommand line 373).
FailReplyResolved(m) ==
    /\ NoneDone
    /\ msg[m].pc = "failreply"
    /\ msg' = [msg EXCEPT ![m].pc = "done", ![m].errorsAdded = @ + 1]
    /\ UNCHANGED <<now, userLimits, groqRequests, groqResetTime, timerAt, conversations,
                   currentModel, admittedCount, lastCall>>

\* the try-again-later reply was rejected by Discord: the increment after it is
\* skipped and the catch block counts the error (lines 188-192, 376-380).
FailReplyRejected(m) ==
    /\ NoneDone
    /\ msg[m].pc = "failreply"
    /\ msg' = [msg EXCEPT ![m].pc = "done", ![m].outcome = "error",
                          ![m].errorsAdded = @ + 1]
    /\ UNCHANGED <<now, userLimits, groqRequests, groqResetTime, timerAt, conversations,
                   currentModel, admittedCount, lastCall>>

\* the handler has returned
Return(m) ==
    /\ msg[m].pc = "done"
    /\ msg' = [msg EXCEPT ![m] = IdleMsg]
    /\ UNCHANGED <<now, userLimits, groqRequests, groqResetTime, timerAt, conversations,
                   currentModel, admittedCount, lastCall>>

\* faulty variant: the timer also puts the selection back to the primary provider
GroqResetTimerRestoresPrimary ==
    /\ NoneDone
    /\ now >= timerAt
    /\ groqRequests' = 0
    /\ groqResetTime' = GetNextResetTime(now)
    /\ timerAt' = groqResetTime'
    /\ currentModel' = "groq"
    /\ UNCHANGED <<now, userLimits, conversations, msg, admittedCount, lastCall>>

\* faulty variant: the callback does not schedule the next timer
GroqResetTimerForgetsNext ==
    /\ NoneDone
    /\ now >= timerAt
    /\ groqRequests' = 0
    /\ groqResetTime' = GetNextResetTime(now)
    /\ timerAt' = MaxTime + 2 * DayMs
    /\ UNCHANGED <<now, userLimits, conversations, currentModel, msg, admittedCount, lastCall>>

\* scheduleGroqReset: the one-shot timer fires (no earlier than it is due),
\* resets the quota and schedules the next one.
GroqResetTimer ==
    /\ NoneDone
    /\ now >= timerAt
    /\ groqRequests' = 0
    /\ groqResetTime' = GetNextResetTime(now)
    /\ timerAt' = groqResetTime'
    /\ UNCHANGED <<now, userLimits, conversations, currentModel, msg, admittedCount, lastCall>>

\* setInterval(cleanupUserLimits, 1h)
RateSweep ==
    /\ NoneDone
    /\ userLimits' = CleanupUserLimits(userLimits, now)
    /\ UNCHANGED <<now, groqRequests, groqResetTime, timerAt, conversations, currentModel,
                   msg, admittedCount, lastCall>>

\* setInterval(cleanupOldConversations, 10 min)
ConversationSweep ==
    /\ NoneDone
    /\ conversations' = CleanupOldConversations(conversations, now)
    /\ msg' = Detached(msg, DOMAIN conversations \ DOMAIN conversations')
    /\ UNCHANGED <<now, userLimits, groqRequests, groqResetTime, timerAt, currentModel,
                   admittedCount, lastCall>>

\* /admin reset-limits groq | users | conversations | all
AdminResetLimits(value) ==
    /\ NoneDone
    /\ groqRequests' = IF value \in {"groq", "all"} THEN 0 ELSE groqRequests
    /\ userLimits' = IF value \in {"users", "all"} THEN EmptyMap ELSE userLimits
    /\ conversations' = IF value \in {"conversations", "all"} THEN EmptyMap ELSE conversations
    /\ msg' = Detached(msg, DOMAIN conversations \ DOMAIN conversations')
    /\ UNCHANGED <<now, groqResetTime, timerAt, currentModel, admittedCount, lastCall>>

\* /admin force-model groq | huggingface | auto
AdminForceModel(value) ==
    /\ NoneDone
    /\ currentModel' = IF value = "auto" THEN "groq" ELSE value
    /\ UNCHANGED <<now, userLimits, groqRequests, groqResetTime, timerAt, conversations,
                   msg, admittedCount, lastCall>>

\* /reset
HandleResetCommand(userId) ==
    /\ NoneDone
    /\ conversations' = ClearContext(conversations, userId)
    /\ msg' = Detached(msg, {userId})
    /\ UNCHANGED <<now, userLimits, groqRequests, groqResetTime, timerAt, currentModel,
                   admittedCount, lastCall>>

Next ==
    \/ Tick
    \/ \E m \in Slots, u \in Users, c \in Contents : HandleMessage(m, u, c)
    \/ \E m \in Slots : TypingResolved(m)
    \/ \E m \in Slots : TypingRejected(m)
    \/ \E m \in Slots, lookup \in PromptLookups : PromptResolved(m, lookup)
    \/ \E m \in Slots, http \in HttpOutcomes : PrimaryResolved(m, http)
    \/ \E m \in Slots, http \in HttpOutcomes : FallbackResolved(m, http)
    \/ \E m \in Slots : FailReplyResolved(m)
    \/ \E m \in Slots : FailReplyRejected(m)
    \/ \E m \in Slots : Return(m)
    \/ GroqResetTimer
    \/ RateSweep
    \/ ConversationSweep
    \/ \E v \in {"groq", "users", "conversations", "all"} : AdminResetLimits(v)
    \/ \E v \in {"groq", "huggingface", "auto"} : AdminForceModel(v)
    \/ \E u \in Users : HandleResetCommand(u)

Spec == Init /\ [][Next]_vars

\* the next step of m's handler: one of its awaits settles, or it returns
HandlerStep(m) ==
    \/ TypingResolved(m)
    \/ TypingRejected(m)
    \/ \E lookup \in PromptLookups : PromptResolved(m, lookup)
    \/ \E http \in HttpOutcomes : PrimaryResolved(m, http)
    \/ \E http \in HttpOutcomes : FallbackResolved(m, http)
    \/ FailReplyResolved(m)
    \/ FailReplyRejected(m)
    \/ Return(m)

\* Every await of a handler settles: the provider calls have timeouts (30 s and
\* 60 s), the other promises are taken to settle.  A handler's step is taken if
\* it can be taken again and again (it is held back only while another handler
\* is returning).
SpecLive == Spec /\ \A m \in Slots : SF_vars(HandlerStep(m))

\* ------------------------------------- the bot after a force-model command
\* The state after construction and one /admin force-model command, which
\* lastCall records; no admin command follows.
InitForced ==
    /\ now = 0
    /\ userLimits = EmptyMap
    /\ groqRequests = 0
    /\ groqResetTime = GetNextResetTime(0)
    /\ timerAt = GetNextResetTime(0)
    /\ conversations = EmptyMap
    /\ msg = [m \in Slots |-> IdleMsg]
    /\ admittedCount = 0
    /\ \E value \in {"groq", "huggingface", "auto"} :
         /\ currentModel = (IF value = "auto" THEN "groq" ELSE value)
         /\ lastCall = [op |-> "force-model", user |-> value, result |-> TRUE, n |-> 0]

NextForced ==
    \/ Tick
    \/ \E m \in Slots, u \in Users, c \in Contents : HandleMessage(m, u, c)
    \/ \E m \in Slots : TypingResolved(m)
    \/ \E m \in Slots : TypingRejected(m)
    \/ \E m \in Slots, lookup \in PromptLookups : PromptResolved(m, lookup)
    \/ \E m \in Slots, http \in HttpOutcomes : PrimaryResolved(m, http)
    \/ \E m \in Slots, http \in HttpOutcomes : FallbackResolved(m, http)
    \/ \E m \in Slots : FailReplyResolved(m)
    \/ \E m \in Slots : FailReplyRejected(m)
    \/ \E m \in Slots : Return(m)
    \/ GroqResetTimer
    \/ RateSweep
    \/ ConversationSweep
    \/ \E u \in Users : HandleResetCommand(u)

SpecForced == InitForced /\ [][NextForced]_vars

\* ------------------------------------------- the rate limiter on its own
\* rateLimiter.checkUserLimit(userId), called directly
CallCheckUserLimit(userId) ==
    /\ NoneDone
    /\ LET r == CheckUserLimit(userLimits, userId, now)
       IN  /\ userLimits' = r.limits
           /\ lastCall' = [op |-> "checkUserLimit", user |-> userId,
                           result |-> r.admitted, n |-> 1 - lastCall.n]
    /\ UNCHANGED <<now, groqRequests, groqResetTime, timerAt, conversations, currentModel,
                   msg, admittedCount>>

\* rateLimiter.resetUserLimit(userId), called directly
CallResetUserLimit(userId) ==
    /\ NoneDone
    /\ LET r == ResetUserLimit(userLimits, userId)
       IN  /\ userLimits' = r.userLimits
           /\ lastCall' = [op |-> "resetUserLimit", user |-> userId,
                           result |-> r.hadLimit, n |-> 1 - lastCall.n,
                           returns |-> "boolean", count |-> 0, userCount |-> 0]
    /\ UNCHANGED <<now, groqRequests, groqResetTime, timerAt, conversations, currentModel,
                   msg, admittedCount>>

NextRate ==
    \/ Tick
    \/ \E u \in Users : CallCheckUserLimit(u)
    \/ \E u \in Users : CallResetUserLimit(u)
    \/ RateSweep
    \/ \E v \in {"groq", "users", "conversations", "all"} : AdminResetLimits(v)

SpecRate == Init /\ [][NextRate]_vars

\* ------------------------------------ the conversation store on its own
\* conversation.messageCount and conversation.messages, 0 and [] without a state
CountOf(convs, u) == IF u \in DOMAIN convs THEN convs[u].messageCount ELSE 0
MessagesOf(convs, u) == IF u \in DOMAIN convs THEN convs[u].messages ELSE <<>>
Roles == {"system", "user", "assistant"}

\* conversationManager.addMessage(userId, role, content), called directly; the
\* content is the ordinal of the turn in its conversation, so that every turn
\* of a conversation can be told from the others.
CallAddMessage(userId, role) ==
    /\ NoneDone
    /\ userId \in DOMAIN conversations => conversations[userId].messageCount < MaxStored
    /\ conversations' = AddMessage(conversations, userId, role,
                                   CountOf(conversations, userId) + 1, now)
    /\ lastCall' = [op |-> "addMessage", user |-> userId, result |-> TRUE,
                    n |-> 1 - lastCall.n,
                    context |-> <<[role |-> role,
                                   content |-> CountOf(conversations, userId) + 1]>>]
    /\ UNCHANGED <<now, userLimits, groqRequests, groqResetTime, timerAt, currentModel,
                   msg, admittedCount>>

\* conversationManager.getContext(userId), called directly
CallGetContext(userId) ==
    /\ NoneDone
    /\ LET g == GetContext(conversations, userId, now)
       IN  /\ conversations' = g.conversations
           /\ lastCall' = [op |-> "getContext", user |-> userId, result |-> TRUE,
                           n |-> 1 - lastCall.n, context |-> g.context]
    /\ UNCHANGED <<now, userLimits, groqRequests, groqResetTime, timerAt, currentModel,
                   msg, admittedCount>>

NextStore ==
    \/ Tick
    \/ \E role \in Roles : CallAddMessage("u1", role)
    \/ CallGetContext("u1")
    \/ ConversationSweep
    \/ HandleResetCommand("u1")

SpecStore == Init /\ [][NextStore]_vars

\* ------------------------------------------ the bot with a returning user
\* The state after construction and one message of u1, answered by the primary
\* provider at time 0: its exchange is stored, its request and its quota unit
\* are counted.  No admin command follows.
InitReturning ==
    /\ now = 0
    /\ userLimits = CheckUserLimit(EmptyMap, "u1", 0).limits
    /\ groqRequests = IncrementGroq(0)
    /\ groqResetTime = GetNextResetTime(0)
    /\ timerAt = GetNextResetTime(0)
    /\ conversations = Persist(EmptyMap, "u1", "hi", GroqResult("200").content, 0)
    /\ currentModel = "groq"
    /\ msg = [m \in Slots |-> IdleMsg]
    /\ admittedCount = 0
    /\ lastCall = NoCall

SpecReturning == InitReturning /\ [][NextForced]_vars

\* ------------------------------------------- the daily quota on its own
\* rateLimiter.checkGroqLimit(), called directly
CallCheckGroqLimit ==
    /\ NoneDone
    /\ LET g == CheckGroqLimit(groqRequests, groqResetTime, now)
       IN  /\ groqRequests' = g.groqRequests
           /\ groqResetTime' = g.groqResetTime
           /\ lastCall' = [op |-> "checkGroqLimit", user |-> "none",
                           result |-> g.hasCapacity, n |-> 1 - lastCall.n]
    /\ UNCHANGED <<now, userLimits, timerAt, conversations, currentModel, msg,
                   admittedCount>>

\* ------------------------------------------ the admin operations on their own
\* rateLimiter.incrementGroq(), called directly
CallIncrementGroq ==
    /\ NoneDone
    /\ groqRequests < MaxUnits
    /\ groqRequests' = IncrementGroq(groqRequests)
    /\ lastCall' = [op |-> "incrementGroq", user |-> "none", result |-> TRUE,
                    n |-> 1 - lastCall.n]
    /\ UNCHANGED <<now, userLimits, groqResetTime, timerAt, conversations, currentModel,
                   msg, admittedCount>>

\* rateLimiter.resetGroqLimit(), called directly
CallResetGroqLimit ==
    /\ NoneDone
    /\ LET r == ResetGroqLimit(groqRequests)
       IN  /\ groqRequests' = r.groqRequests
           /\ lastCall' = [op |-> "resetGroqLimit", user |-> "none", result |-> TRUE,
                           n |-> 1 - lastCall.n,
                           returns |-> "number", count |-> r.oldCount, userCount |-> 0]
    /\ UNCHANGED <<now, userLimits, groqResetTime, timerAt, conversations, currentModel,
                   msg, admittedCount>>

\* rateLimiter.resetAllLimits(), called directly
CallResetAllLimits ==
    /\ NoneDone
    /\ LET r == ResetAllLimits(userLimits, groqRequests)
       IN  /\ userLimits' = r.userLimits
           /\ groqRequests' = r.groqRequests
           /\ lastCall' = [op |-> "resetAllLimits", user |-> "none", result |-> TRUE,
                           n |-> 1 - lastCall.n,
                           returns |-> "object", count |-> r.groqCount,
                           userCount |-> r.userCount]
    /\ UNCHANGED <<now, groqResetTime, timerAt, conversations, currentModel, msg,
                   admittedCount>>

\* conversationManager.clearContext(userId), called directly
CallClearContext(userId) ==
    /\ NoneDone
    /\ conversations' = ClearContext(conversations, userId)
    /\ lastCall' = [op |-> "clearContext", user |-> userId,
                    result |-> ClearContextResult(conversations, userId),
                    n |-> 1 - lastCall.n,
                    returns |-> "boolean", count |-> 0, userCount |-> 0]
    /\ UNCHANGED <<now, userLimits, groqRequests, groqResetTime, timerAt, currentModel,
                   msg, admittedCount>>

NextAdmin ==
    \/ \E u \in Users : CallCheckUserLimit(u)
    \/ CallIncrementGroq
    \/ \E u \in Users : CallAddMessage(u, "user")
    \/ \E u \in Users : CallResetUserLimit(u)
    \/ CallResetGroqLimit
    \/ CallResetAllLimits
    \/ \E u \in Users : CallClearContext(u)

SpecAdmin == Init /\ [][NextAdmin]_vars

NextQuota ==
    \/ Tick
    \/ CallCheckGroqLimit
    \/ CallIncrementGroq
    \/ GroqResetTimer
    \/ CallResetGroqLimit

SpecQuota == Init /\ [][NextQuota]_vars

\* setTimeout runs its callback once the delay is over
SpecQuotaFair == SpecQuota /\ WF_vars(GroqResetTimer)

\* ------------------------------------ the per-user operations on their own
NextUsers ==
    \/ Tick
    \/ CallIncrementGroq
    \/ \E u \in Users : CallCheckUserLimit(u)
    \/ \E u \in Users : CallGetContext(u)
    \/ \E u \in Users : CallAddMessage(u, "user")
    \/ \E u \in Users : CallClearContext(u)

SpecUsers == Init /\ [][NextUsers]_vars

\* --------------------------------------- the provider clients on their own
Clients == {"groq", "huggingface"}

\* The contents of the turns handed to a client: none, a short one and a long one.
LongText == <<"0", "1", "2", "3", "4", "5", "6", "7", "8", "9">>
TurnContents == {<<>>, <<"h", "i">>, LongText}
Turns == [role : Roles, content : TurnContents]
TurnLists == UNION {[1..k -> Turns] : k \in 0..MaxTurns}

TrimContext(client, messages) ==
    IF client = "groq" THEN GroqTrimContext(messages) ELSE HuggingFaceTrimContext(messages)

ClientError(client, http) ==
    IF client = "groq" THEN GroqError(http) ELSE HuggingFaceError(http)

NoError == Thrown("none", 0, "none")

\* generateResponse(messages) up to its await: the list is trimmed and posted
\* in one request.
CallGenerateResponse(client, messages) ==
    /\ lastCall = NoCall
    /\ lastCall' = [op |-> "generateResponse", user |-> client, result |-> FALSE, n |-> 0,
                    pc |-> "awaiting", posts |-> 1, input |-> messages,
                    context |-> TrimContext(client, messages),
                    prompt |-> IF client = "huggingface"
                               THEN MessagesToPrompt(TrimContext(client, messages))
                               ELSE <<>>,
                    http |-> "none", error |-> NoError]
    /\ UNCHANGED <<now, userLimits, groqRequests, groqResetTime, timerAt, conversations,
                   currentModel, msg, admittedCount>>

\* the HTTP layer settled the request: generateResponse returns or throws
HttpSettled(http) ==
    /\ lastCall.op = "generateResponse"
    /\ lastCall.pc = "awaiting"
    /\ lastCall' = [lastCall EXCEPT !.pc = "settled", !.result = (http = "200"),
                                    !.http = http,
                                    !.error = IF http = "200" THEN NoError
                                              ELSE ClientError(lastCall.user, http)]
    /\ UNCHANGED <<now, userLimits, groqRequests, groqResetTime, timerAt, conversations,
                   currentModel, msg, admittedCount>>

\* the caller is done with the result
ClientReturn ==
    /\ lastCall.op = "generateResponse"
    /\ lastCall.pc = "settled"
    /\ lastCall' = NoCall
    /\ UNCHANGED <<now, userLimits, groqRequests, groqResetTime, timerAt, conversations,
                   currentModel, msg, admittedCount>>

NextClient ==
    \/ \E client \in Clients, messages \in TurnLists : CallGenerateResponse(client, messages)
    \/ \E http \in HttpOutcomes : HttpSettled(http)
    \/ ClientReturn

SpecClient == Init /\ [][NextClient]_vars

\* ------------------------------------------ the token estimator on its own
\* the characters of the texts: those of the special token 'system'
TextChars == {"s", "y", "t", "e", "m"}

\* the text of the last estimateTokens call
EstimatedText == IF lastCall.op = "estimateTokens" THEN lastCall.text ELSE <<>>

\* tokenCounter.estimateTokens(text), called on the last text extended by c
CallEstimateTokens(c) ==
    /\ lastCall.op \in {"none", "estimateTokens"}
    /\ Len(EstimatedText) < MaxText
    /\ LET text == Append(EstimatedText, c)
       IN  lastCall' = [op |-> "estimateTokens", user |-> "none", result |-> TRUE, n |-> 0,
                        text |-> text, tokens |-> EstimateTokens(text)]
    /\ UNCHANGED <<now, userLimits, groqRequests, groqResetTime, timerAt, conversations,
                   currentModel, msg, admittedCount>>

NextTokens == \E c \in TextChars : CallEstimateTokens(c)

SpecTokens == Init /\ [][NextTokens]_vars

\* ================================================================ claims
\* the step is the end of m's handling
Ends(m) == msg[m].pc # "done" /\ msg'[m].pc = "done"
\* a handler's record without the array it was handed, which other handlers'
\* steps change
Own(r) == [r EXCEPT !.context = <<>>, !.live = FALSE]
\* the step is taken by m's handler
Moves(m) == Own(msg'[m]) # Own(msg[m])
LastTwo(s) == SubSeq(s, Len(s) - 1, Len(s))
IsSuffix(s, t) == Len(s) <= Len(t) /\ s = SubSeq(t, Len(t) - Len(s) + 1, Len(t))

\* C1, first half: the step that ends a message in success appends exactly two
\* turns to that user's conversation, the user's message and then the reply,
\* and appends nothing to any other user's conversation.
C1_SuccessAppendsPair(m) ==
    (Ends(m) /\ msg'[m].outcome = "success") =>
        LET u == msg[m].user
        IN  /\ u \in DOMAIN conversations'
            /\ conversations'[u].messageCount = CountOf(conversations, u) + 2
            /\ Len(conversations'[u].messages) >= 2
            /\ LastTwo(conversations'[u].messages) =
                 << [role |-> "user", content |-> msg[m].content],
                    [role |-> "assistant", content |-> msg'[m].response] >>
            /\ IsSuffix(SubSeq(conversations'[u].messages, 1,
                               Len(conversations'[u].messages) - 2),
                        MessagesOf(conversations, u))
            /\ \A v \in Users \ {u} :
                 /\ (v \in DOMAIN conversations') = (v \in DOMAIN conversations)
                 /\ v \in DOMAIN conversations => conversations'[v] = conversations[v]

\* C1, second half: a step that is not the successful end of a message appends
\* no turn: every conversation it leaves in the store was there before, with
\* the same turns and the same turn count.
C1_NothingElseAppends ==
    (\A m \in Slots : ~(Ends(m) /\ msg'[m].outcome = "success")) =>
        \A u \in DOMAIN conversations' :
            /\ u \in DOMAIN conversations
            /\ conversations'[u].messages = conversations[u].messages
            /\ conversations'[u].messageCount = conversations[u].messageCount

\* C1: a message that ends in success appends exactly the user turn and then
\* the assistant turn under its userId; nothing else appends a turn.
C1_PersistOnlyOnSuccess ==
    [][(\A m \in Slots : C1_SuccessAppendsPair(m)) /\ C1_NothingElseAppends]_vars

C1_Witness ==
    \E m \in Slots :
        /\ msg[m].outcome = "success"
        /\ msg[m].user \in DOMAIN conversations
        /\ conversations[msg[m].user].messageCount = 4
        /\ Len(conversations[msg[m].user].messages) = MaxContextMessages

\* C2 as stated: a message that failed at the providers has not changed the
\* store at all (messages, turn count, lastActivity, presence of the state).
C2_StoreUntouchedOnFailure ==
    \A m \in Slots : msg[m].outcome = "failed" => msg[m].storeEffect = "none"

\* C2 amended: a handler step other than a successful end never changes the
\* turns or the turn count of a conversation; the only store effects are those
\* of its getContext call, which sets lastActivity of its own user to now, or
\* removes its own user's state when that was idle longer than the timeout.
C2_StepKeepsTurns(m) ==
    (Moves(m) /\ ~(Ends(m) /\ msg'[m].outcome = "success")) =>
        /\ \A u \in DOMAIN conversations' :
             /\ u \in DOMAIN conversations
             /\ conversations'[u].messages = conversations[u].messages
             /\ conversations'[u].messageCount = conversations[u].messageCount
             /\ conversations'[u].lastActivity # conversations[u].lastActivity =>
                  /\ u = msg[m].user
                  /\ msg[m].pc = "typing"
                  /\ conversations'[u].lastActivity = now
        /\ \A u \in DOMAIN conversations \ DOMAIN conversations' :
             /\ u = msg[m].user
             /\ msg[m].pc = "typing"
             /\ now - conversations[u].lastActivity > ConversationTimeout

C2_FailedTurnOnlyContextFetchEffects ==
    /\ [](\A m \in Slots : msg[m].outcome = "failed" =>
              msg[m].storeEffect \in {"none", "refreshed", "evicted"})
    /\ [][\A m \in Slots : C2_StepKeepsTurns(m)]_vars

C2_Witness ==
    \E m \in Slots : msg[m].outcome = "failed" /\ msg[m].storeEffect = "refreshed"

\* C3: a message the rate check rejects ends at once with the rate-limited
\* notice: no provider call, no getContext, and the rejecting step leaves the
\* store, the global quota and the provider selection as they were.
C3_RejectedStep(m) ==
    (msg[m].pc = "idle" /\ msg'[m].outcome = "rate_limited") =>
        /\ msg'[m].pc = "done"
        /\ conversations' = conversations
        /\ groqRequests' = groqRequests
        /\ groqResetTime' = groqResetTime
        /\ currentModel' = currentModel

C3_RejectedInv ==
    \A m \in Slots : msg[m].outcome = "rate_limited" =>
        /\ msg[m].pc = "done"
        /\ msg[m].ctxReads = 0
        /\ msg[m].primaryCalls = 0
        /\ msg[m].fallbackCalls = 0
        /\ msg[m].response = "none"

C3_RejectedDoesNothing ==
    [](C3_RejectedInv) /\ [][\A m \in Slots : C3_RejectedStep(m)]_vars

C3_Witness ==
    \E m \in Slots :
        /\ msg[m].outcome = "rate_limited"
        /\ msg[m].user \in DOMAIN conversations
        /\ groqRequests > 0

\* C4: in every state the rate limiter can reach through checkUserLimit
\* calls, clock ticks, sweeps and admin resets, each user's window count is at
\* least 1 and at most the configured maximum.
C4_WindowCountBounded ==
    \A u \in DOMAIN userLimits : userLimits[u].count \in 1..UserMax

C4_Witness ==
    \E u \in DOMAIN userLimits :
        /\ userLimits[u].count = UserMax
        /\ lastCall = [op |-> "checkUserLimit", user |-> u, result |-> TRUE, n |-> lastCall.n]

\* the step is a call checkUserLimit(u)
Called(u) ==
    lastCall' # lastCall /\ lastCall'.op = "checkUserLimit" /\ lastCall'.user = u

\* C5, the decision of one call
C5_Decision(u) ==
    Called(u) =>
        IF u \notin DOMAIN userLimits
        THEN /\ lastCall'.result
             /\ userLimits' = MapSet(userLimits, u,
                   [count |-> 1, resetTime |-> now + WindowMs, firstRequest |-> now])
        ELSE IF now > userLimits[u].resetTime
        THEN /\ lastCall'.result
             /\ userLimits'[u].count = 1
             /\ userLimits'[u].resetTime = now + WindowMs
             /\ \A v \in DOMAIN userLimits \ {u} : userLimits'[v] = userLimits[v]
        ELSE IF userLimits[u].count < UserMax
        THEN /\ lastCall'.result
             /\ userLimits' = [userLimits EXCEPT ![u].count = userLimits[u].count + 1]
        ELSE /\ ~lastCall'.result
             /\ userLimits' = userLimits

RECURSIVE AfterCalls(_, _, _, _)
\* the rate state after k calls checkUserLimit(u) at time t
AfterCalls(limits, u, t, k) ==
    IF k = 0 THEN limits
    ELSE CheckUserLimit(AfterCalls(limits, u, t, k - 1), u, t).limits

\* C5, the scenario: from any state and for a user without a window, the first
\* UserMax calls at one time are admitted, the next one in the window (up to
\* and including the instant windowResetAt) is rejected, and the first call
\* later than windowResetAt is admitted and leaves the count at 1.
C5_Scenario ==
    \A u \in Users \ DOMAIN userLimits :
        LET full == AfterCalls(userLimits, u, now, UserMax)
        IN  /\ \A k \in 1..UserMax :
                 /\ CheckUserLimit(AfterCalls(userLimits, u, now, k - 1), u, now).admitted
                 /\ AfterCalls(userLimits, u, now, k)[u].count = k
            /\ \A d \in 0..WindowMs : ~CheckUserLimit(full, u, now + d).admitted
            /\ CheckUserLimit(full, u, now + WindowMs + 1).admitted
            /\ CheckUserLimit(full, u, now + WindowMs + 1).limits[u].count = 1

\* C5: checkUserLimit admits an unknown user with count 1, admits a user whose
\* window has passed (now > resetTime) with count 1 and a new window, and
\* otherwise admits iff count < max, adding one; a rejection changes nothing.
C5_AdmitDecision ==
    [](C5_Scenario) /\ [][\A u \in Users : C5_Decision(u)]_vars

C5_Witness ==
    \E u \in DOMAIN userLimits :
        /\ lastCall.op = "checkUserLimit" /\ lastCall.user = u /\ ~lastCall.result
        /\ userLimits[u].count = UserMax
        /\ now = userLimits[u].resetTime

\* C6: every message calls checkUserLimit exactly once, in its first step; the
\* admitting step adds one to the user's running window or starts a window at
\* 1, and no later step of any handler touches the rate state.
C6_AdmitStep(m) ==
    (msg[m].pc = "idle" /\ msg'[m].pc # "idle" /\ msg'[m].outcome # "rate_limited") =>
        LET u == msg'[m].user
        IN  /\ u \in DOMAIN userLimits'
            /\ userLimits'[u].count =
                 IF u \in DOMAIN userLimits /\ ~(now > userLimits[u].resetTime)
                 THEN userLimits[u].count + 1
                 ELSE 1
            /\ \A v \in Users \ {u} :
                 /\ (v \in DOMAIN userLimits') = (v \in DOMAIN userLimits)
                 /\ v \in DOMAIN userLimits => userLimits'[v] = userLimits[v]

C6_LaterStep(m) ==
    (Moves(m) /\ msg[m].pc # "idle") => userLimits' = userLimits

C6_RateConsumedOnce ==
    /\ [](\A m \in Slots : msg[m].pc # "idle" => msg[m].rateCalls = 1)
    /\ [][\A m \in Slots : C6_AdmitStep(m) /\ C6_LaterStep(m)]_vars

C6_Witness ==
    \E m \in Slots :
        /\ msg[m].outcome = "failed"
        /\ msg[m].primaryCalls = 1 /\ msg[m].fallbackCalls = 1
        /\ msg[m].user \in DOMAIN userLimits
        /\ userLimits[msg[m].user].count = 2
        /\ userLimits[msg[m].user].firstRequest = now

\* C7: a step that calls the primary provider is taken only with the provider
\* selection at primary and the daily quota (after its lazy reset) below the
\* limit; a primary success at limit-1 leaves the counter at the limit; and a
\* message that reaches the provider choice with the counter at the limit and
\* the day not over calls the fallback provider without calling the primary.
C7_PrimaryCallStep(m) ==
    msg'[m].primaryCalls > msg[m].primaryCalls =>
        /\ currentModel = "groq"
        /\ currentModel' = "groq"
        /\ groqRequests' < GroqDaily
        /\ groqRequests' = (IF now > groqResetTime THEN 0 ELSE groqRequests)

C7_AtLimitStep(m) ==
    /\ (msg[m].pc = "primary" /\ msg'[m].primaryResult = "ok"
            /\ groqRequests = GroqDaily - 1)
         => groqRequests' = GroqDaily
    /\ (msg[m].pc = "prompt" /\ msg'[m].pc # "prompt"
            /\ groqRequests >= GroqDaily /\ ~(now > groqResetTime))
         => /\ msg'[m].pc = "fallback"
            /\ msg'[m].primaryCalls = 0
            /\ msg'[m].fallbackCalls = 1

C7_PrimaryOnlyWhenSelectedAndCapacity ==
    [][\A m \in Slots : C7_PrimaryCallStep(m) /\ C7_AtLimitStep(m)]_vars

C7_Witness ==
    \E m \in Slots :
        /\ msg[m].pc = "fallback"
        /\ msg[m].primaryResult = "skipped"
        /\ groqRequests = GroqDaily
        /\ \E u \in DOMAIN conversations :
             Len(conversations[u].messages) = 2
             /\ conversations[u].messages[2].content = "groq reply"

\* C8: the global counter grows only in the step of a successful primary call,
\* and then by exactly one; a message consumes at most one unit, and consumes
\* one exactly when its primary call succeeded.
C8_CounterStep ==
    /\ groqRequests' > groqRequests =>
         /\ groqRequests' = groqRequests + 1
         /\ \E m \in Slots : msg[m].pc = "primary" /\ msg'[m].primaryResult = "ok"
    /\ \A m \in Slots :
         (msg[m].pc = "primary" /\ msg'[m].primaryResult = "ok")
           => groqRequests' = groqRequests + 1

C8_UnitsInv ==
    \A m \in Slots :
        /\ msg[m].groqUnits \in {0, 1}
        /\ (msg[m].groqUnits = 1) = (msg[m].primaryResult = "ok")
        /\ msg[m].fallbackResult # "none" => msg[m].groqUnits = 0

C8_QuotaConsumedOnPrimarySuccessOnly ==
    [](C8_UnitsInv) /\ [][C8_CounterStep]_vars

C8_Witness ==
    /\ groqRequests = 1
    /\ \E m \in Slots : msg[m].primaryResult = "ok" /\ msg[m].groqUnits = 1
    /\ \E k \in Slots : msg[k].outcome = "none" /\ msg[k].primaryResult = "failed"

\* C9: whatever the HTTP layer hands the primary client other than a usable
\* reply (401, 429, 5xx, another status, a timeout, a network error, a
\* malformed body), the step that settles the call starts the fallback call,
\* and the message ends with one primary call and one fallback call.
C9_FailureStep(m) ==
    \A http \in HttpOutcomes \ {"200"} :
        (msg[m].pc = "primary" /\ PrimaryResolved(m, http)) =>
            /\ msg'[m].pc = "fallback"
            /\ msg'[m].primaryCalls = 1
            /\ msg'[m].fallbackCalls = 1

C9_FailedInv ==
    \A m \in Slots : msg[m].primaryResult = "failed" =>
        /\ msg[m].pc \in {"fallback", "failreply", "done"}
        /\ msg[m].primaryCalls = 1
        /\ msg[m].fallbackCalls = 1

C9_PrimaryFailureFallsBackOnce ==
    [](C9_FailedInv) /\ [][\A m \in Slots : C9_FailureStep(m)]_vars

C9_Witness ==
    \E m \in Slots :
        /\ msg[m].pc = "done"
        /\ msg[m].primaryResult = "failed"
        /\ msg[m].fallbackResult = "ok"
        /\ msg[m].fallbackCalls = 1

\* C10: per message at most one call goes to each provider, the primary first;
\* the fallback is called exactly when the primary was skipped or failed and
\* never after a primary success; the reply returned is the reply of the one
\* call that succeeded.
C10_CallOrder ==
    \A m \in Slots :
        /\ msg[m].primaryCalls \in {0, 1}
        /\ msg[m].fallbackCalls \in {0, 1}
        /\ msg[m].pc = "primary" => (msg[m].primaryCalls = 1 /\ msg[m].fallbackCalls = 0)
        /\ (msg[m].fallbackCalls = 1) = (msg[m].primaryResult \in {"skipped", "failed"})
        /\ msg[m].primaryResult = "skipped" => msg[m].primaryCalls = 0
        /\ msg[m].primaryResult \in {"ok", "failed"} => msg[m].primaryCalls = 1
        /\ msg[m].primaryResult = "ok" =>
             (msg[m].fallbackCalls = 0 /\ msg[m].response = "groq reply")
        /\ msg[m].fallbackResult = "ok" =>
             (msg[m].primaryResult # "ok" /\ msg[m].response = "hf reply")
        /\ msg[m].response # "none" =>
             (msg[m].primaryResult = "ok") # (msg[m].fallbackResult = "ok")
        /\ msg[m].outcome \in {"success", "failed"} =>
             msg[m].primaryCalls + msg[m].fallbackCalls >= 1

C10_Witness ==
    \E m \in Slots :
        /\ msg[m].outcome = "success"
        /\ msg[m].primaryResult = "skipped"
        /\ msg[m].response = "hf reply"
        /\ currentModel = "groq"

\* C11: a step of a message's handler moves the selection from the primary
\* to the fallback provider only if it is the step in which that message's
\* fallback call succeeded; so a message whose fallback call fails leaves the
\* selection as it found it.
C11_MarkStep(m) ==
    (Moves(m) /\ currentModel = "groq" /\ currentModel' = "huggingface") =>
        (msg[m].pc = "fallback" /\ msg'[m].fallbackResult = "ok")

C11_FallbackMarkedOnlyOnSuccess ==
    [][\A m \in Slots : C11_MarkStep(m)]_vars

\* C12: while the selection is the fallback provider no step issues a primary
\* call, and the only steps that make the primary provider selected again are
\* the admin's force-model groq and force-model auto.
C12_StickyStep ==
    currentModel = "huggingface" =>
        /\ \A m \in Slots : msg'[m].primaryCalls <= msg[m].primaryCalls
        /\ \A m \in Slots : (msg[m].pc = "prompt" /\ Moves(m)) =>
               (msg'[m].pc = "fallback" /\ msg'[m].primaryResult = "skipped")
        /\ currentModel' = "groq" =>
               (AdminForceModel("groq") \/ AdminForceModel("auto"))

C12_StickyFallback == [][C12_StickyStep]_vars

\* a message went to the fallback provider although the quota had been reset
\* by the timer and had capacity
C12_Witness ==
    /\ currentModel = "huggingface"
    /\ groqRequests = 0
    /\ timerAt >= 2 * DayMs
    /\ \E m \in Slots :
         /\ msg[m].outcome = "success"
         /\ msg[m].primaryResult = "skipped"
         /\ msg[m].response = "hf reply"

\* C13: with the selection at the fallback provider, a daily quota reset makes
\* the primary provider preferred again: after the timer's reset the selection
\* is the primary provider, and a message that reaches the provider choice
\* after resetAt has passed (the lazy path) calls the primary provider.
C13_ResetStep ==
    currentModel = "huggingface" =>
        /\ GroqResetTimer => currentModel' = "groq"
        /\ \A m \in Slots :
             (msg[m].pc = "prompt" /\ Moves(m) /\ now > groqResetTime) =>
                 msg'[m].pc = "primary"

C13_QuotaResetRestoresPrimary == [][C13_ResetStep]_vars

\* C14: a message for which no provider produced a response ends with the
\* NoProviderAvailable outcome: whatever the two clients threw, the handler
\* does not take its catch path for it, it sends the try-again-later text, and
\* by the time it returns it has added exactly one to stats.errors (after the
\* reply, or in the catch block when Discord rejects the reply).
C14_NoProviderInv ==
    \A m \in Slots : msg[m].fallbackResult = "failed" =>
        /\ msg[m].response = "none"
        /\ msg[m].reply = "try_later"
        /\ msg[m].pc \in {"failreply", "done"}
        /\ msg[m].pc = "failreply" => (msg[m].outcome = "failed" /\ msg[m].errorsAdded = 0)
        /\ msg[m].pc = "done" => msg[m].errorsAdded = 1

C14_NoProviderStep(m) ==
    \A http \in HttpOutcomes \ {"200"} :
        (msg[m].pc = "fallback" /\ FallbackResolved(m, http)) =>
            /\ msg'[m].outcome = "failed"
            /\ msg'[m].reply = "try_later"
            /\ msg'[m].pc = "failreply"

CountSystem(messages) == Len(SelectSeq(messages, IsSystem))

\* the turn lists the store holds, and the empty list
StoredContexts == {<<>>} \cup {conversations[u].messages : u \in DOMAIN conversations}

\* C15, the list: for every outcome of the prompt lookup and every context the
\* store can hand out, the list built for the providers starts with a system
\* turn, has no other system turn, and that turn carries the custom prompt iff
\* the lookup gave a non-empty one, the default prompt otherwise.
C15_ListInv ==
    \A lookup \in PromptLookups, context \in StoredContexts, content \in Contents :
        LET messages == BuildMessages(ResolveSystemPrompt(lookup), context, content)
        IN  /\ messages[1].role = "system"
            /\ CountSystem(messages) = 1
            /\ messages[1].content =
                 (IF lookup = "custom" THEN "custom prompt" ELSE "default prompt")
            /\ messages[1].content # ""
            /\ SubSeq(messages, 2, Len(messages) - 1) = context
            /\ messages[Len(messages)] = [role |-> "user", content |-> content]

\* C15, the step: whatever the lookup gave, a rejection included, the message
\* goes on to a provider call with the prompt so chosen.
C15_LookupStep(m) ==
    \A lookup \in PromptLookups :
        (msg[m].pc = "prompt" /\ PromptResolved(m, lookup)) =>
            /\ msg'[m].pc \in {"primary", "fallback"}
            /\ msg'[m].primaryCalls + msg'[m].fallbackCalls = 1
            /\ msg'[m].systemPrompt =
                 (IF lookup = "custom" THEN "custom prompt" ELSE "default prompt")

C15_PromptResolve ==
    /\ [](C15_ListInv)
    /\ [](\A m \in Slots : msg[m].pc \in {"primary", "fallback"} =>
              msg[m].systemPrompt \in {"custom prompt", "default prompt"})
    /\ [][\A m \in Slots : C15_LookupStep(m)]_vars

C15_Witness ==
    \E m \in Slots :
        /\ msg[m].pc = "fallback"
        /\ msg[m].primaryResult = "failed"
        /\ msg[m].systemPrompt = "custom prompt"
        /\ msg[m].user \in DOMAIN conversations
        /\ Len(conversations[msg[m].user].messages) >= 2

\* C16: whatever addMessage calls were made, with whatever roles, no stored
\* conversation holds more than the configured maximum of turns.
C16_StoredCountBounded ==
    \A u \in DOMAIN conversations :
        Len(conversations[u].messages) <= MaxContextMessages

\* the step is a direct call of op for user u
CalledOp(op, u) ==
    lastCall' # lastCall /\ lastCall'.op = op /\ lastCall'.user = u

NonNegative(k) == IF k > 0 THEN k ELSE 0
\* the last k elements of s
LastN(s, k) == SubSeq(s, Len(s) - (IF k < Len(s) THEN k ELSE Len(s)) + 1, Len(s))

\* C17: when an addMessage call takes the list over the maximum, the list
\* stored afterwards has every system turn of the list, and of its non-system
\* turns exactly the most recent (max - systemCount), in their order.
C17_TrimStep(u) ==
    CalledOp("addMessage", u) =>
        LET pushed      == MessagesOf(conversations, u) \o lastCall'.context
            after       == conversations'[u].messages
            systemTurns == SelectSeq(pushed, IsSystem)
            otherTurns  == SelectSeq(pushed, IsNotSystem)
        IN  Len(pushed) > MaxContextMessages =>
              /\ SelectSeq(after, IsSystem) = systemTurns
              /\ SelectSeq(after, IsNotSystem) =
                   LastN(otherTurns, NonNegative(MaxContextMessages - Len(systemTurns)))

C17_TrimKeepsSystemAndRecent == [][\A u \in Users : C17_TrimStep(u)]_vars

\* u has a state that has been idle longer than the timeout
Expired(convs, u, t) ==
    u \in DOMAIN convs /\ t - convs[u].lastActivity > ConversationTimeout

\* C18, the decision of one getContext call: without a state it returns the
\* empty list and changes nothing; with a state idle longer than the timeout it
\* returns the empty list and removes the state; otherwise it returns the
\* stored turns as they are and sets lastActivity to now.
C18_GetContextStep(u) ==
    CalledOp("getContext", u) =>
        IF u \notin DOMAIN conversations
        THEN lastCall'.context = <<>> /\ conversations' = conversations
        ELSE IF now - conversations[u].lastActivity > ConversationTimeout
        THEN lastCall'.context = <<>> /\ conversations' = MapDelete(conversations, u)
        ELSE /\ lastCall'.context = conversations[u].messages
             /\ conversations' = [conversations EXCEPT ![u].lastActivity = now]

\* the step takes u's state out of expiry with one of its turns still in it
Revived(u) ==
    /\ Expired(conversations, u, now)
    /\ u \in DOMAIN conversations'
    /\ ~Expired(conversations', u, now')
    /\ \E i \in 1..Len(conversations[u].messages), j \in 1..Len(conversations'[u].messages) :
         conversations'[u].messages[j] = conversations[u].messages[i]

\* C18 as stated: the decision of getContext, and turns that were stored
\* before an idle period longer than the timeout are never handed out again,
\* that is, a state that has expired never becomes live again with its turns.
C18_ExpiredTurnsNeverReturned ==
    [][\A u \in Users : C18_GetContextStep(u) /\ ~Revived(u)]_vars

\* C18 amended: the decision of getContext; a getContext call on an expired
\* state removes it, and the only step that makes an expired state live again
\* with its turns is an addMessage call, which does not test the expiry.
C18_GetContextDecision ==
    [][\A u \in Users :
          /\ C18_GetContextStep(u)
          /\ Revived(u) => CalledOp("addMessage", u)
          /\ (CalledOp("getContext", u) /\ Expired(conversations, u, now)) =>
                 u \notin DOMAIN conversations']_vars

\* a getContext call that handed out a turn stored at time 0, at the end of
\* the clock
C18_Witness ==
    /\ lastCall.op = "getContext"
    /\ now = MaxTime
    /\ Len(lastCall.context) >= 2
    /\ lastCall.context[1].content = 1
    /\ "u1" \in DOMAIN conversations
    /\ conversations["u1"].lastActivity = now

\* C19: for a user without a state, addMessage(u,'user',a), then
\* addMessage(u,'assistant',b), then getContext(u) within the timeout returns
\* exactly the two turns, in that order.
C19_RoundTrip ==
    \A u \in Users \ DOMAIN conversations, d \in 0..ConversationTimeout :
        MaxContextMessages >= 2 =>
            GetContext(AddMessage(AddMessage(conversations, u, "user", "a", now),
                                  u, "assistant", "b", now),
                       u, now + d).context
              = << [role |-> "user", content |-> "a"],
                   [role |-> "assistant", content |-> "b"] >>

C19_Witness ==
    /\ lastCall.op = "getContext"
    /\ lastCall.context = << [role |-> "user", content |-> 1],
                             [role |-> "assistant", content |-> 2] >>
    /\ "u1" \in DOMAIN conversations
    /\ conversations["u1"].messageCount = 2

\* the step resets the daily quota through the timer or through checkGroqLimit
QuotaReset == groqResetTime' # groqResetTime \/ timerAt' # timerAt

\* C20: every reset of the daily quota, by the timer or by the lazy check,
\* leaves the counter at 0 and resetAt at the first midnight after the time of
\* the reset: later than now, and no more than a day later.  The lazy check
\* resets exactly when it is evaluated after resetAt has passed.
C20_ResetStep ==
    /\ QuotaReset =>
         /\ groqRequests' = 0
         /\ groqResetTime' = (now \div DayMs) * DayMs + DayMs
         /\ groqResetTime' > now
         /\ groqResetTime' - DayMs <= now
    /\ GroqResetTimer => (QuotaReset \/ groqResetTime = GetNextResetTime(now))
    /\ \A m \in Slots :
         (msg[m].pc = "prompt" /\ Moves(m) /\ currentModel = "groq") =>
            IF now > groqResetTime
            THEN groqRequests' = 0 /\ groqResetTime' > now
            ELSE groqRequests' = groqRequests /\ groqResetTime' = groqResetTime

C20_ResetPathsAgree ==
    /\ [](groqResetTime % DayMs = 0 /\ groqResetTime > 0 /\ timerAt <= groqResetTime)
    /\ [][C20_ResetStep]_vars

\* the lazy check has reset the quota while the timer was still pending
C20_Witness ==
    /\ groqResetTime > timerAt
    /\ groqRequests = 0
    /\ \E m \in Slots : msg[m].pc = "primary"
    /\ \E u \in DOMAIN conversations :
         \E i \in 1..Len(conversations[u].messages) :
            conversations[u].messages[i].content = "groq reply"

\* C21: for every list of turns handed to either client, the list it posts has
\* every system turn of the input, in order and first, followed by non-system
\* turns that are a contiguous suffix of the input's non-system turns (the
\* most recent ones, in their order).
C21_TrimKeepsSystemAndSuffix ==
    lastCall.op = "generateResponse" =>
        LET systemOut == SelectSeq(lastCall.context, IsSystem)
            otherOut  == SelectSeq(lastCall.context, IsNotSystem)
        IN  /\ systemOut = SelectSeq(lastCall.input, IsSystem)
            /\ IsSuffix(otherOut, SelectSeq(lastCall.input, IsNotSystem))
            /\ lastCall.context = systemOut \o otherOut

\* the primary client dropped the older of two turns and kept the system turn
C21_Witness ==
    /\ lastCall.op = "generateResponse"
    /\ lastCall.user = "groq"
    /\ Len(lastCall.input) = 3
    /\ lastCall.input[2].role = "system"
    /\ Len(lastCall.context) = 2
    /\ lastCall.context[1].role = "system"
    /\ lastCall.context[2] = lastCall.input[3]
    /\ lastCall.context[2].content # <<>>

\* what C22 says a client throws for an outcome of the HTTP layer
C22_Classified(client, http, error) ==
    LET status == StatusOf(http)
    IN  CASE HasResponse(http) /\ status = 401 -> error.message = "Authentication failed"
          [] HasResponse(http) /\ status = 429 -> error.message = "Rate limit exceeded"
          [] HasResponse(http) /\ status = 503 ->
                error.message = (IF client = "huggingface" THEN "Model loading"
                                 ELSE "Server error")
          [] HasResponse(http) /\ status >= 500 /\ status # 503 ->
                error.message = "Server error"
          [] HasResponse(http) /\ status < 500 /\ status \notin {401, 429} ->
                error.message = "API error" /\ error.status = status
          [] http = "timeout" -> error.message = "Request timeout"
          [] OTHER -> error.cause = http

\* C22: a generateResponse call that does not return a reply throws the error
\* the table gives for the outcome of its request, the same table in both
\* clients but for 503; it posts one request and never a second one.
C22_ErrorClassification ==
    lastCall.op = "generateResponse" =>
        /\ lastCall.posts = 1
        /\ (lastCall.pc = "settled" /\ lastCall.http # "200") =>
              /\ ~lastCall.result
              /\ C22_Classified(lastCall.user, lastCall.http, lastCall.error)
        /\ (lastCall.pc = "settled" /\ lastCall.http = "200") =>
              (lastCall.result /\ lastCall.error = NoError)

C22_Witness ==
    /\ lastCall.op = "generateResponse"
    /\ lastCall.pc = "settled"
    /\ lastCall.user = "huggingface"
    /\ lastCall.http = "503"
    /\ lastCall.error.message = "Model loading"
    /\ lastCall.posts = 1

\* a message of u is between its rate check and its outcome
InFlight(u) ==
    \E m \in Slots : msg[m].user = u /\ msg[m].pc \in {"typing", "prompt", "primary", "fallback"}

\* C23: the conversation sweep removes exactly the states idle longer than the
\* timeout, the rate sweep exactly the states whose firstRequest is more than a
\* day old, both leave every other state as it was, and neither removes the
\* state of a user who has a message in flight.
C23_SweepStep ==
    /\ ConversationSweep =>
         /\ DOMAIN conversations' =
              {u \in DOMAIN conversations :
                 ~(now - conversations[u].lastActivity > ConversationTimeout)}
         /\ \A u \in DOMAIN conversations' : conversations'[u] = conversations[u]
         /\ \A u \in DOMAIN conversations \ DOMAIN conversations' : ~InFlight(u)
    /\ RateSweep =>
         /\ DOMAIN userLimits' =
              {u \in DOMAIN userLimits : ~(now - userLimits[u].firstRequest > DayMs)}
         /\ \A u \in DOMAIN userLimits' : userLimits'[u] = userLimits[u]
         /\ \A u \in DOMAIN userLimits \ DOMAIN userLimits' : ~InFlight(u)

C23_SweepsSpareInFlight == [][C23_SweepStep]_vars

\* the window count u's rate state holds, 0 without one
WindowCountOf(limits, u) == IF u \in DOMAIN limits THEN limits[u].count ELSE 0

\* C24, resetGlobal: clears the counter and nothing else, returns the count
\* held before; applied again it changes nothing and returns 0.
C24_ResetGlobalStep ==
    CalledOp("resetGroqLimit", "none") =>
        /\ lastCall'.returns = "number"
        /\ lastCall'.count = groqRequests
        /\ groqRequests' = 0
        /\ userLimits' = userLimits /\ conversations' = conversations
        /\ ResetGroqLimit(groqRequests') = [groqRequests |-> groqRequests', oldCount |-> 0]

\* C24, resetAll: clears the counter and every user's rate state, returns the
\* number of rate states and the count held before; applied again it changes
\* nothing and returns zeros.
C24_ResetAllStep ==
    CalledOp("resetAllLimits", "none") =>
        /\ lastCall'.returns = "object"
        /\ lastCall'.count = groqRequests
        /\ lastCall'.userCount = Cardinality(DOMAIN userLimits)
        /\ groqRequests' = 0 /\ userLimits' = EmptyMap
        /\ conversations' = conversations
        /\ ResetAllLimits(userLimits', groqRequests') =
             [userLimits |-> userLimits', groqRequests |-> groqRequests',
              userCount |-> 0, groqCount |-> 0]

\* C24, clearContext: removes u's conversation state and nothing else, returns
\* whether there was one; applied again it changes nothing and returns false.
C24_ClearContextStep(u) ==
    CalledOp("clearContext", u) =>
        /\ lastCall'.returns = "boolean"
        /\ lastCall'.result = (u \in DOMAIN conversations)
        /\ conversations' = MapDelete(conversations, u)
        /\ userLimits' = userLimits /\ groqRequests' = groqRequests
        /\ ClearContext(conversations', u) = conversations'
        /\ ~ClearContextResult(conversations', u)

\* C24, resetUser: removes u's rate state and nothing else; applied again it
\* changes nothing.
C24_ResetUserEffect(u) ==
    CalledOp("resetUserLimit", u) =>
        /\ userLimits' = MapDelete(userLimits, u)
        /\ groqRequests' = groqRequests /\ conversations' = conversations
        /\ ResetUserLimit(userLimits', u).userLimits = userLimits'

\* C24 as stated: resetUser, too, returns the count it held before the call.
C24_ResetUserReturnsCount(u) ==
    CalledOp("resetUserLimit", u) =>
        /\ lastCall'.returns = "number"
        /\ lastCall'.count = WindowCountOf(userLimits, u)

C24_ResetsReturnPriorCount ==
    [][/\ C24_ResetGlobalStep
       /\ C24_ResetAllStep
       /\ \A u \in Users : /\ C24_ClearContextStep(u)
                           /\ C24_ResetUserEffect(u)
                           /\ C24_ResetUserReturnsCount(u)]_vars

\* C24 amended: resetUser returns whether u had a rate state, not a count, and
\* applied again it returns false.
C24_ResetUserReturnsFlag(u) ==
    CalledOp("resetUserLimit", u) =>
        /\ lastCall'.returns = "boolean"
        /\ lastCall'.result = (u \in DOMAIN userLimits)
        /\ ~ResetUserLimit(userLimits', u).hadLimit

C24_ResetsIdempotent ==
    [][/\ C24_ResetGlobalStep
       /\ C24_ResetAllStep
       /\ \A u \in Users : /\ C24_ClearContextStep(u)
                           /\ C24_ResetUserEffect(u)
                           /\ C24_ResetUserReturnsFlag(u)]_vars

\* resetAll on a full counter and two rate states, with conversations stored
C24_Witness ==
    /\ lastCall.op = "resetAllLimits"
    /\ lastCall.count = MaxUnits
    /\ lastCall.userCount = 2
    /\ groqRequests = 0
    /\ userLimits = EmptyMap
    /\ DOMAIN conversations = Users

\* C25: after the admin forced the selection to groq or to huggingface, it is
\* that provider for as long as no admin command follows, whatever messages
\* are handled; after force-model auto, a message that reaches the provider
\* choice with the primary selected and quota left calls the primary, and a
\* failed primary call is followed by the fallback call.
C25_AutoStep(m) ==
    lastCall.user = "auto" =>
        /\ (msg[m].pc = "prompt" /\ Moves(m) /\ currentModel = "groq"
                /\ CheckGroqLimit(groqRequests, groqResetTime, now).hasCapacity)
             => msg'[m].pc = "primary"
        /\ (msg[m].pc = "primary" /\ Moves(m) /\ msg'[m].primaryResult = "failed")
             => msg'[m].pc = "fallback"

C25_ForcedSelectionStays ==
    /\ [](lastCall.user \in {"groq", "huggingface"} => currentModel = lastCall.user)
    /\ [][\A m \in Slots : C25_AutoStep(m)]_vars

\* how far a handler has come
Rank(pc) ==
    CASE pc = "idle"      -> 0
      [] pc = "typing"    -> 1
      [] pc = "prompt"    -> 2
      [] pc = "primary"   -> 3
      [] pc = "fallback"  -> 4
      [] pc = "failreply" -> 5
      [] OTHER            -> 6

\* C26, the outcomes: a handler that is done has exactly one outcome, with the
\* reply and the effects of that outcome and of no other.
C26_OutcomeInv ==
    \A m \in Slots : msg[m].pc = "done" =>
        CASE msg[m].outcome = "rate_limited" ->
                 msg[m].reply = "rate_notice" /\ msg[m].response = "none"
          [] msg[m].outcome = "success" ->
                 /\ msg[m].reply = "answer" /\ msg[m].response # "none"
                 /\ msg[m].errorsAdded = 0
          [] msg[m].outcome \in {"failed", "error"} ->
                 /\ msg[m].reply \in {"try_later", "error_notice"}
                 /\ msg[m].response = "none"
                 /\ msg[m].errorsAdded = 1
          [] OTHER -> FALSE

\* C26, no loop: every step of a handler in flight takes it further along
\* RateCheck .. Terminal, so it ends within six steps.
C26_ProgressStep(m) ==
    (Moves(m) /\ msg[m].pc \notin {"idle", "done"}) =>
        Rank(msg'[m].pc) > Rank(msg[m].pc)

\* C26, no waiting: whatever the other handlers are at, a handler in flight can
\* take its next step (only a handler that is returning goes first).
C26_NeverBlocked ==
    \A m \in Slots :
        (msg[m].pc \notin {"idle", "done"} /\ NoneDone) => ENABLED HandlerStep(m)

C27_SecondPathStep ==
    /\ (GroqResetTimer /\ groqResetTime > timerAt) =>
          (groqRequests' = groqRequests /\ groqResetTime' = groqResetTime)
    /\ (CalledOp("checkGroqLimit", "none") /\ timerAt = groqResetTime
            /\ ~(now > groqResetTime)) =>
          (groqRequests' = groqRequests /\ groqResetTime' = groqResetTime)

C27_NoDoubleReset == [][C27_SecondPathStep]_vars

\* C28, what holds of every checkGroqLimit call: the counter does not grow; it
\* changes only by the lazy reset, to 0; the answer is whether the counter is
\* then below the limit; and the same call made again at once changes nothing
\* and gives the same answer.
C28_CheckStep ==
    CalledOp("checkGroqLimit", "none") =>
        /\ groqRequests' <= groqRequests
        /\ groqRequests' # groqRequests => (now > groqResetTime /\ groqRequests' = 0)
        /\ lastCall'.result = (groqRequests' < GroqDaily)
        /\ CheckGroqLimit(groqRequests', groqResetTime', now) =
             [groqRequests |-> groqRequests', groqResetTime |-> groqResetTime',
              hasCapacity |-> lastCall'.result]

\* C28 as stated: and of two calls made in immediate succession neither
\* changes the counter.
C28_CheckNeverChangesCount ==
    [][C28_CheckStep /\
       (CalledOp("checkGroqLimit", "none") => groqRequests' = groqRequests)]_vars

\* C28 amended: the first of the two calls changes the counter only when the
\* lazy reset is due; the second changes nothing.
C28_CheckIdempotent == [][C28_CheckStep]_vars

\* a check that found the quota used up, on the day after a lazy reset
C28_Witness ==
    /\ lastCall.op = "checkGroqLimit"
    /\ ~lastCall.result
    /\ groqRequests = GroqDaily
    /\ groqResetTime > timerAt

\* C29, the callback: it sets the counter to 0 and resetAt to the first
\* midnight after the time it runs, and leaves a timer pending for that resetAt.
C29_TimerStep ==
    GroqResetTimer =>
        /\ groqRequests' = 0
        /\ groqResetTime' = GetNextResetTime(now)
        /\ groqResetTime' > now
        /\ timerAt' = groqResetTime'

\* C29: whatever else happens or does not happen, a timer that is due runs; a
\* timer is pending at all times, for a time no later than resetAt.
C29_TimerResetRecurs ==
    /\ [][C29_TimerStep]_vars
    /\ [](timerAt <= groqResetTime)
    /\ (now >= timerAt) ~> (timerAt > now /\ groqResetTime > now)

\* the timer has run over a used counter (the last call counted a unit, and
\* the counter is 0): the next timer is pending for the new resetAt
C29_Witness ==
    /\ timerAt >= 2 * DayMs
    /\ groqResetTime = timerAt
    /\ groqRequests = 0
    /\ lastCall.op = "incrementGroq"
    /\ now < timerAt

\* C30: the estimate of a text is at least the estimate of each of its
\* prefixes, also when the text's last characters complete a special token.
C30_EstimateMonotonic ==
    lastCall.op = "estimateTokens" =>
        \A k \in 0..Len(lastCall.text) :
            EstimateTokens(SubSeq(lastCall.text, 1, k)) <= lastCall.tokens

RECURSIVE C31_TurnsText(_)
\* for each turn in order its role header, its content and an end-of-turn marker
C31_TurnsText(messages) ==
    IF messages = <<>> THEN <<>>
    ELSE RoleHeader(Head(messages).role) \o Head(messages).content \o EotId
           \o C31_TurnsText(Tail(messages))

\* C31: the prompt the fallback client posts is one begin marker, then the turns
\* of the trimmed list in order, then the open assistant header, whatever the
\* number of system turns in the list.
C31_PromptFormat ==
    (lastCall.op = "generateResponse" /\ lastCall.user = "huggingface") =>
        lastCall.prompt
          = BeginOfText \o C31_TurnsText(lastCall.context) \o RoleHeader("assistant")

\* C32: the counter of the daily quota never exceeds the daily limit, however
\* the handlers of several messages overlap between the capacity check and
\* the increment that follows a successful primary call.
C32_QuotaWithinLimit == groqRequests <= GroqDaily

\* C33: the label of a reply names the provider whose call produced the reply,
\* whatever other handlers and admin commands did to the selection meanwhile.
C33_LabelNamesProvider ==
    \A m \in Slots :
        msg[m].outcome = "success" =>
            msg[m].label = (IF msg[m].primaryResult = "ok" THEN "groq" ELSE "huggingface")

\* the turns stored for u
StoredTurns(convs, u) == IF u \in DOMAIN convs THEN convs[u].messages ELSE <<>>

\* C34, one step and one user: the stored turns stay as they are, or a handler
\* of this user ends in success and its two turns, the message and then its
\* own reply, are put behind the stored ones, of which only the trim takes
\* away the oldest, or the conversation is removed because it has expired or
\* by a reset command.
C34_StoreStep(u) ==
    LET old == StoredTurns(conversations, u)
        new == StoredTurns(conversations', u)
    IN  \/ /\ new = old
           /\ (u \in DOMAIN conversations) = (u \in DOMAIN conversations')
        \/ \E m \in Slots :
              /\ Ends(m) /\ msg'[m].outcome = "success" /\ msg[m].user = u
              /\ Len(new) = (IF Len(old) + 2 > MaxContextMessages
                             THEN MaxContextMessages ELSE Len(old) + 2)
              /\ LastTwo(new) = << [role |-> "user", content |-> msg[m].content],
                                   [role |-> "assistant", content |-> msg'[m].response] >>
              /\ IsSuffix(SubSeq(new, 1, Len(new) - 2), old)
        \/ /\ u \in DOMAIN conversations
           /\ u \notin DOMAIN conversations'
           /\ \/ now - conversations[u].lastActivity > ConversationTimeout
              \/ HandleResetCommand(u)
              \/ \E v \in {"conversations", "all"} : AdminResetLimits(v)

\* C34: overlapping messages of one user lose no stored turn and split no pair.
C34_NoTurnLost == [][\A u \in Users : C34_StoreStep(u)]_vars

\* a handler ends in success that built its messages on an empty context,
\* and its pair is the second pair of the conversation: the other message of
\* this user stored its pair after this one had read the context
C34_Witness ==
    \E m \in Slots :
        /\ msg[m].pc = "done"
        /\ msg[m].outcome = "success"
        /\ msg[m].sent = BuildMessages(msg[m].systemPrompt, <<>>, msg[m].content)
        /\ msg[m].user \in DOMAIN conversations
        /\ conversations[msg[m].user].messageCount = 4
        /\ LastTwo(conversations[msg[m].user].messages)
             = << [role |-> "user", content |-> msg[m].content],
                  [role |-> "assistant", content |-> msg[m].response] >>

\* C35: the messages a handler passes to the providers are the system prompt,
\* the turns the store held for the user when the handler called getContext,
\* and the new message; what other handlers store for the user during the
\* prompt lookup does not show in them.
C35_SentStep(m) ==
    (msg[m].pc = "prompt" /\ Moves(m)) =>
        msg'[m].sent = BuildMessages(msg'[m].systemPrompt, msg[m].fetched, msg[m].content)

C35_ContextIsSnapshot == [][\A m \in Slots : C35_SentStep(m)]_vars

\* u has used up its window, which is not over yet
C36_Limited(u) ==
    /\ u \in DOMAIN userLimits
    /\ userLimits[u].count >= UserMax
    /\ now <= userLimits[u].resetTime

\* C36, from a state in which u is limited: a request at any time up to and
\* including resetTime is rejected and leaves the rate states as they are (so
\* does any number of them, one after the other), and a request at any later
\* time is admitted.
C36_Readmission(u) ==
    C36_Limited(u) =>
        /\ \A t \in now..userLimits[u].resetTime :
              CheckUserLimit(userLimits, u, t) = [limits |-> userLimits, admitted |-> FALSE]
        /\ \A t \in (userLimits[u].resetTime + 1)..(MaxTime + WindowMs + 1) :
              /\ CheckUserLimit(userLimits, u, t).admitted
              /\ CheckUserLimit(userLimits, u, t).limits[u].count = 1

\* C36, the calls made: a rejected call leaves resetTime (and all else) as it
\* is, and a call later than resetTime is admitted.
C36_CallStep(u) ==
    CalledOp("checkUserLimit", u) =>
        /\ ~lastCall'.result => userLimits' = userLimits
        /\ (u \in DOMAIN userLimits /\ now > userLimits[u].resetTime) => lastCall'.result

\* C36: rejected requests never postpone a user's readmission.
C36_RejectionsKeepWindow ==
    /\ [](\A u \in Users : C36_Readmission(u))
    /\ [][\A u \in Users : C36_CallStep(u)]_vars

\* a request of a limited user was rejected at the last instant of its window
C36_Witness ==
    /\ lastCall.op = "checkUserLimit"
    /\ ~lastCall.result
    /\ C36_Limited(lastCall.user)
    /\ now = userLimits[lastCall.user].resetTime
    /\ userLimits[lastCall.user].firstRequest < now

\* the rate state and the conversation state of v, if any
C37_StateOf(limits, convs, v) ==
    [limit        |-> IF v \in DOMAIN limits THEN <<limits[v]>> ELSE <<>>,
     conversation |-> IF v \in DOMAIN convs THEN <<convs[v]>> ELSE <<>>]

\* C37, one call for user u: the rate state and the conversation state of
\* every other user, the daily counter and its reset time are as before.
C37_CallStep(u) ==
    (\E op \in {"checkUserLimit", "getContext", "addMessage", "clearContext"} :
        CalledOp(op, u)) =>
        /\ \A v \in Users \ {u} :
              C37_StateOf(userLimits', conversations', v)
                = C37_StateOf(userLimits, conversations, v)
        /\ groqRequests' = groqRequests
        /\ groqResetTime' = groqResetTime

C37_PerUserIsolation == [][\A u \in Users : C37_CallStep(u)]_vars

\* u2's conversation was cleared while u1 has a conversation and a rate state
\* and quota units are counted
C37_Witness ==
    /\ lastCall.op = "clearContext"
    /\ lastCall.user = "u2"
    /\ lastCall.result
    /\ "u1" \in DOMAIN conversations
    /\ "u1" \in DOMAIN userLimits
    /\ "u2" \in DOMAIN userLimits
    /\ groqRequests > 0

\* C38, a state: for every user and every time from now on, checkUserLimit
\* decides the same, and leaves the same rate state for the user, on the rate
\* states as they are and on what the sweep would leave of them.
C38_SameDecisions ==
    WindowMs <= DayMs =>
        \A u \in Users : \A t \in now..(MaxTime + 1) :
            LET with    == CheckUserLimit(CleanupUserLimits(userLimits, now), u, t)
                without == CheckUserLimit(userLimits, u, t)
            IN  /\ with.admitted = without.admitted
                /\ with.limits[u] = without.limits[u]

\* C38, a sweep: every rate state it removes has a window that is over.
C38_SweepStep ==
    (WindowMs <= DayMs /\ RateSweep) =>
        \A u \in DOMAIN userLimits \ DOMAIN userLimits' : now > userLimits[u].resetTime

\* C38: the hourly sweep of the rate states grants no extra admission.
C38_SweepGrantsNothing == [](C38_SameDecisions) /\ [][C38_SweepStep]_vars

\* the sweep is about to remove the rate state of a user who used up the window
C38_Witness ==
    \E u \in DOMAIN userLimits :
        /\ userLimits[u].count = UserMax
        /\ ENABLED (RateSweep /\ u \notin DOMAIN userLimits')

\* C39: for a turn list that begins with the system turn and ends with the
\* user's new message, the list either client posts ends with that message,
\* whatever the size of the message.
C39_NewMessageSent ==
    (/\ lastCall.op = "generateResponse"
     /\ Len(lastCall.input) >= 2
     /\ lastCall.input[1].role = "system"
     /\ lastCall.input[Len(lastCall.input)].role = "user") =>
        /\ lastCall.context # <<>>
        /\ lastCall.context[Len(lastCall.context)] = lastCall.input[Len(lastCall.input)]

====
